---- MODULE Spec2Model ----
(***************************************************************************)
(* claude-code-sync: the selective sync engine (push / pull between the    *)
(* local config directory ~/.claude and the repository working copy).      *)
(* Files are modelled as a partial map from path strings to content        *)
(* strings; every path and every content is a real string, so the pattern  *)
(* classifier, the ".age" suffix handling and the encryption container are *)
(* computed, not assumed.                                                  *)
(***************************************************************************)
EXTENDS Integers, Sequences, FiniteSets, TLC

(***************************************************************************)
(* Go's strings / path/filepath helpers used by the source.                *)
(***************************************************************************)

\* strings.HasPrefix
HasPrefix(s, p) == Len(p) <= Len(s) /\ SubSeq(s, 1, Len(p)) = p

\* strings.HasSuffix
HasSuffix(s, x) == Len(x) <= Len(s) /\ SubSeq(s, Len(s) - Len(x) + 1, Len(s)) = x

\* strings.Contains
Contains(s, sub) ==
    \E i \in 1..(Len(s) - Len(sub) + 1) : SubSeq(s, i, i + Len(sub) - 1) = sub

\* strings.TrimSuffix
TrimSuffix(s, x) == IF HasSuffix(s, x) THEN SubSeq(s, 1, Len(s) - Len(x)) ELSE s

\* strings.TrimPrefix
TrimPrefix(s, p) == IF HasPrefix(s, p) THEN SubSeq(s, Len(p) + 1, Len(s)) ELSE s

\* os.PathSeparator of the platform the model runs the commands on
Separator == "/"

\* index of the last separator of s, 0 when there is none
LastSep(s) ==
    LET idx == {i \in 1..Len(s) : SubSeq(s, i, i) = Separator}
    IN  IF idx = {} THEN 0 ELSE CHOOSE i \in idx : \A j \in idx : j <= i

\* filepath.Base (for the non-empty, separator-free-ending paths a walk yields)
Base(s) == SubSeq(s, LastSep(s) + 1, Len(s))

\* filepath.Dir
Dir(s) == IF LastSep(s) = 0 THEN "." ELSE SubSeq(s, 1, LastSep(s) - 1)

\* filepath.Join of two non-empty elements
Join(a, b) == a \o Separator \o b

\* strings.ReplaceAll for a non-empty old
RECURSIVE ReplaceAll(_, _, _)
ReplaceAll(s, old, new) ==
    IF Len(s) < Len(old) THEN s
    ELSE IF SubSeq(s, 1, Len(old)) = old
         THEN new \o ReplaceAll(SubSeq(s, Len(old) + 1, Len(s)), old, new)
         ELSE SubSeq(s, 1, 1) \o ReplaceAll(SubSeq(s, 2, Len(s)), old, new)

\* filepath.ToSlash
ToSlash(s) == IF Separator = "/" THEN s ELSE ReplaceAll(s, Separator, "/")

\* the upper-case letters that occur in the modelled paths and patterns
LowerOf ==
    [c \in {"A", "B", "C", "D", "E", "F", "G", "H", "I", "J", "K", "L", "M", "N", "O",
            "P", "Q", "R", "S", "T", "U", "V", "W", "X", "Y", "Z"} |->
        CASE c = "A" -> "a" [] c = "B" -> "b" [] c = "C" -> "c" [] c = "D" -> "d"
          [] c = "E" -> "e" [] c = "F" -> "f" [] c = "G" -> "g" [] c = "H" -> "h"
          [] c = "I" -> "i" [] c = "J" -> "j" [] c = "K" -> "k" [] c = "L" -> "l"
          [] c = "M" -> "m" [] c = "N" -> "n" [] c = "O" -> "o" [] c = "P" -> "p"
          [] c = "Q" -> "q" [] c = "R" -> "r" [] c = "S" -> "s" [] c = "T" -> "t"
          [] c = "U" -> "u" [] c = "V" -> "v" [] c = "W" -> "w" [] c = "X" -> "x"
          [] c = "Y" -> "y" [] c = "Z" -> "z"]

\* strings.ToLower
RECURSIVE ToLower(_)
ToLower(s) ==
    IF Len(s) = 0 THEN s
    ELSE LET c == SubSeq(s, 1, 1)
         IN  (IF c \in DOMAIN LowerOf THEN LowerOf[c] ELSE c) \o ToLower(SubSeq(s, 2, Len(s)))

\* strings.Split(s, sep) for a one-character sep
RECURSIVE Split(_, _)
Split(s, sep) ==
    LET idx == {i \in 1..Len(s) : SubSeq(s, i, i) = sep}
    IN  IF idx = {} THEN <<s>>
        ELSE LET i == CHOOSE k \in idx : \A j \in idx : k <= j
             IN  <<SubSeq(s, 1, i - 1)>> \o Split(SubSeq(s, i + 1, Len(s)), sep)

\* filepath.Match for patterns made of literal characters and '*'
\* ('*' matches any sequence of non-separator characters)
RECURSIVE Match(_, _)
Match(pattern, s) ==
    IF Len(pattern) = 0 THEN Len(s) = 0
    ELSE IF SubSeq(pattern, 1, 1) = "*"
         THEN \E k \in 0..Len(s) :
                 /\ ~Contains(SubSeq(s, 1, k), Separator)
                 /\ Match(SubSeq(pattern, 2, Len(pattern)), SubSeq(s, k + 1, Len(s)))
         ELSE /\ Len(s) > 0
              /\ SubSeq(s, 1, 1) = SubSeq(pattern, 1, 1)
              /\ Match(SubSeq(pattern, 2, Len(pattern)), SubSeq(s, 2, Len(s)))

(***************************************************************************)
(* internal/config: paths, pattern sets, classification.                   *)
(***************************************************************************)

Home == "/h"
ClaudeDir == Join(Home, ".claude")
ClaudeJSON == Join(Home, ".claude.json")
SyncDir == Join(Home, ".claude-sync")
ConfigFile == Join(SyncDir, "config.yaml")
KeyFile == Join(SyncDir, "identity.key")
RepoDir == Join(SyncDir, "repo")
BackupDir == Join(SyncDir, "backups")

DefaultEncryptPatterns ==
    <<"settings.json", "settings.local.json", "claude.json", ".credentials.json",
      "client_secret_*.json", "skills/*/resources/*">>

\* a default exclude list without the pattern for sibling backups
DefaultExcludePatternsWithoutBackups ==
    <<"plans", "projects", "local", "statsig", "todos", "debug", "file-history", "ide",
      "plugins", "shell-snapshots", "telemetry", "sessionStorage", "history.jsonl",
      "stats-cache.json", "*.log", "*.tmp", "*.cache", ".git">>

DefaultExcludePatterns ==
    <<"plans", "projects", "local", "statsig", "todos", "debug", "file-history", "ide",
      "plugins", "shell-snapshots", "telemetry", "sessionStorage", "history.jsonl",
      "stats-cache.json", "*.log", "*.tmp", "*.cache", "*.local-backup-*", ".git">>

DefaultMaxCount == 5

\* matchWildcard
matchWildcard(s, pattern) ==
    IF ~Contains(pattern, "*") THEN s = pattern
    ELSE LET parts == Split(pattern, "*")
         IN  IF Len(parts) = 2
             THEN HasPrefix(s, parts[1]) /\ HasSuffix(s, parts[2])
             ELSE Match(pattern, s)

\* a ShouldEncrypt that tries wildcard patterns on the base name only
ShouldEncryptBaseOnly(c, relPath) ==
    \E i \in 1..Len(c.EncryptPatterns) :
        matchWildcard(Base(relPath), c.EncryptPatterns[i])

\* Config.ShouldEncrypt
ShouldEncrypt(c, relPath) ==
    LET filename == Base(relPath)
        relPathNorm == ToSlash(relPath)
    IN  \E i \in 1..Len(c.EncryptPatterns) :
            LET pattern == c.EncryptPatterns[i]
            IN  IF Contains(pattern, "*")
                THEN matchWildcard(filename, pattern) \/ matchWildcard(relPathNorm, pattern)
                ELSE filename = pattern

\* Config.ShouldExclude
ShouldExclude(c, relPath) ==
    LET filename == Base(relPath)
        filenameLower == ToLower(filename)
        relPathNorm == ToLower(ToSlash(relPath))
    IN  \E i \in 1..Len(c.ExcludePatterns) :
            LET pattern == c.ExcludePatterns[i]
                patternLower == ToLower(pattern)
            IN  IF Contains(pattern, "*")
                THEN matchWildcard(filenameLower, patternLower)
                ELSE \/ relPathNorm = patternLower
                     \/ HasPrefix(relPathNorm, patternLower \o "/")
                     \/ filenameLower = patternLower

(***************************************************************************)
(* internal/sync/platform.go                                               *)
(***************************************************************************)

\* runtime.GOOS of the machine the commands run on
GOOS == "linux"

PlatformWindows == "windows"
PlatformUnix == "unix"

\* GetPlatform under runtime.GOOS = goos
GetPlatformOn(goos) == IF goos = "windows" THEN PlatformWindows ELSE PlatformUnix

\* GetPlatform
GetPlatform == GetPlatformOn(GOOS)

\* a GetPlatformSuffix that looks for the Unix tag first
GetPlatformSuffixUnixFirst(filename) ==
    LET base == Base(filename)
    IN  IF Contains(base, ".unix.") THEN PlatformUnix
        ELSE IF Contains(base, ".windows.") THEN PlatformWindows
        ELSE ""

\* GetPlatformSuffix
GetPlatformSuffix(filename) ==
    LET base == Base(filename)
    IN  IF Contains(base, ".windows.") THEN PlatformWindows
        ELSE IF Contains(base, ".unix.") THEN PlatformUnix
        ELSE ""

\* ShouldSkipForPlatform where GetPlatform returns platform
ShouldSkipOn(platform, filename) ==
    LET suffix == GetPlatformSuffix(filename)
    IN  IF suffix = "" THEN FALSE ELSE suffix # platform

\* ShouldSkipForPlatform
ShouldSkipForPlatform(filename) == ShouldSkipOn(GetPlatform, filename)

(***************************************************************************)
(* internal/sync: placeholder translation                                  *)
(***************************************************************************)

ClaudeDirPlaceholder == "$CLAUDE_DIR"

\* strings.Join(lines, "\n")
RECURSIVE JoinLines(_)
JoinLines(lines) ==
    IF Len(lines) = 0 THEN ""
    ELSE IF Len(lines) = 1 THEN lines[1]
    ELSE lines[1] \o "\n" \o JoinLines(Tail(lines))

\* NormalizePathsInJSON
NormalizePathsInJSON(data, claudeDir) ==
    LET escapedClaudeDir == ReplaceAll(claudeDir, "\\", "\\\\")
        c1 == ReplaceAll(data, escapedClaudeDir, ClaudeDirPlaceholder)
        forwardSlashDir == ToSlash(claudeDir)
        c2 == ReplaceAll(c1, forwardSlashDir, ClaudeDirPlaceholder)
    IN  ReplaceAll(c2, claudeDir, ClaudeDirPlaceholder)

\* ExpandPathsInJSON
ExpandPathsInJSON(data, claudeDir) ==
    IF Contains(claudeDir, "\\")
    THEN ReplaceAll(data, ClaudeDirPlaceholder, ReplaceAll(claudeDir, "\\", "\\\\"))
    ELSE LET content == ReplaceAll(data, ClaudeDirPlaceholder, claudeDir)
             lines == Split(content, "\n")
             fixed == [i \in 1..Len(lines) |->
                          IF Contains(lines[i], claudeDir)
                          THEN ReplaceAll(lines[i], "\\", "/")
                          ELSE lines[i]]
         IN  JoinLines(fixed)

(***************************************************************************)
(* The disk: a partial map from absolute path to content.                  *)
(***************************************************************************)

\* a file map with path p holding content c
WriteFile(f, p, c) == [q \in (DOMAIN f) \cup {p} |-> IF q = p THEN c ELSE f[q]]

\* the files of f below directory d
Under(f, d) == {p \in DOMAIN f : HasPrefix(p, d \o Separator)}

\* byte order of the characters of the modelled paths, the separator first:
\* comparing paths by it is the order in which filepath.Walk visits files
Alphabet == "/ #$-.0123456789:ABCDEFGHIJKLMNOPQRSTUVWXYZ_abcdefghijklmnopqrstuvwxyz"

Rank ==
    [c \in {SubSeq(Alphabet, i, i) : i \in 1..Len(Alphabet)} |->
        CHOOSE i \in 1..Len(Alphabet) : SubSeq(Alphabet, i, i) = c]

RECURSIVE LessFrom(_, _, _)
LessFrom(a, b, i) ==
    IF i > Len(a) THEN i <= Len(b)
    ELSE IF i > Len(b) THEN FALSE
    ELSE IF SubSeq(a, i, i) = SubSeq(b, i, i) THEN LessFrom(a, b, i + 1)
    ELSE Rank[SubSeq(a, i, i)] < Rank[SubSeq(b, i, i)]

WalkLess(a, b) == LessFrom(a, b, 1)

RECURSIVE InsertPath(_, _)
InsertPath(a, seq) ==
    IF Len(seq) = 0 THEN <<a>>
    ELSE IF WalkLess(a, seq[1]) THEN <<a>> \o seq
    ELSE <<seq[1]>> \o InsertPath(a, Tail(seq))

\* the paths of S in walk (lexical) order
RECURSIVE SortPaths(_)
SortPaths(S) ==
    IF S = {} THEN <<>>
    ELSE LET a == CHOOSE q \in S : TRUE
         IN  InsertPath(a, SortPaths(S \ {a}))

\* sync.RelPath
RelPath(base, path) == SubSeq(path, Len(base) + 2, Len(path))

\* hex.EncodeToString: an encoding without white space
Hex(c) == ReplaceAll(ReplaceAll(c, "\n", "%0a"), " ", "%20")

\* sync.FileChecksum: the digest of a content
Checksum(c) == "sha256(" \o Hex(c) \o ")"

\* sync.Timestamp at clock value t (one value per second)
Digits == <<"1", "2", "3", "4", "5", "6", "7", "8", "9">>
Timestamp(t) == "20250101-00000" \o Digits[t]

\* time.Now().Format(time.RFC3339) at clock value t
RFC3339(t) == "2025-01-01T00:00:0" \o Digits[t] \o "Z"

(***************************************************************************)
(* internal/crypto: the age container.  A ciphertext names its recipient   *)
(* and carries the fresh randomness of its encryption.                     *)
(***************************************************************************)

AgeHeader == "age:"
SecretKeyPrefix == "AGE-SECRET-KEY-"
NonceChars == "abcdefghijklmnopqrstuvwxyzABCDEFGHIJKLMNOPQRSTUVWXYZ0123456789"

\* the key file SaveKey / runInit writes for identity k
KeyFileContent(k) == "# public key: age1" \o k \o "\n" \o SecretKeyPrefix \o k \o "\n"

\* ParseKey: the identity named by the first AGE-SECRET-KEY line, "" when none
ParseKey(content) ==
    LET lines == Split(content, "\n")
        hits == {i \in 1..Len(lines) : HasPrefix(lines[i], SecretKeyPrefix)}
    IN  IF hits = {} THEN ""
        ELSE TrimPrefix(lines[CHOOSE i \in hits : \A j \in hits : i <= j], SecretKeyPrefix)

\* identity.Recipient()
Recipient(identity) == "age1" \o identity

\* crypto.Encrypt with randomness n
Encrypt(publicKey, n, plaintext) ==
    AgeHeader \o publicKey \o ":" \o SubSeq(NonceChars, n, n) \o ":" \o plaintext

\* crypto.Decrypt: <<TRUE, plaintext>> or <<FALSE, "">>
Decrypt(identity, ciphertext) ==
    LET hdr == AgeHeader \o Recipient(identity) \o ":"
    IN  IF HasPrefix(ciphertext, hdr) /\ Len(ciphertext) >= Len(hdr) + 2
           /\ SubSeq(ciphertext, Len(hdr) + 2, Len(hdr) + 2) = ":"
        THEN <<TRUE, SubSeq(ciphertext, Len(hdr) + 3, Len(ciphertext))>>
        ELSE <<FALSE, "">>

(***************************************************************************)
(* State.                                                                  *)
(***************************************************************************)

VARIABLES
    fs,         \* the regular files of the machine's disk: path -> content
    dirs,       \* the directories that were created explicitly
    zips,       \* the backup archives of BackupDir: path -> (entry name -> content)
    yaml,       \* the parsed config.yaml (present = FALSE when there is no file)
    hasRemote,  \* whether the repository has an origin remote
    remote,     \* the tree of origin's branch head: relative path -> content
    head,       \* the tree of the local HEAD commit: relative path -> content
    now,        \* the wall clock, in seconds
    seed,       \* the number of encryptions made so far (their fresh randomness)
    pc,         \* position of the running command: "idle", "pull_files", "push_files", "done"
    cmd,        \* the running (or last) command and its flags
    walk,       \* the files the running command still has to visit
    result,     \* the error the last command returned, "" for success
    pre,        \* the disk when the running command started
    preZips,    \* the archives when the running command started
    processed,  \* the files the running command counted, with their destinations
    vcsOps,     \* the VCS operations the running command invoked, in order
    nCmds,      \* the number of commands started
    faulted,    \* an operation has failed for an outside reason
    origin,     \* the disk of the machine whose push this machine was set up from
    behind,     \* origin's branch holds commits the local HEAD does not
    archived,   \* the archives pulls created on this machine, in the order of creation
    report,     \* the lines verify logged: one [Path, verdict] per manifest entry
    pushed      \* the local side as this machine's last successful push read it

vars == <<fs, dirs, zips, yaml, hasRemote, remote, head, now, seed, pc, cmd, walk, result,
          pre, preZips, processed, vcsOps, nCmds, faulted, origin, behind, archived,
          report, pushed>>

\* bounds of the model
MaxCmds == 2
MaxClock == 2

(***************************************************************************)
(* config.Load                                                             *)
(***************************************************************************)

NoYaml == [present |-> FALSE, EncryptPatterns |-> <<>>, ExcludePatterns |-> <<>>, MaxCount |-> 0]

\* a config.yaml that keeps plugins and sibling backups in the sync and one archive
CustomYaml ==
    [present |-> TRUE, EncryptPatterns |-> <<>>, ExcludePatterns |-> <<"plans", "*.log">>,
     MaxCount |-> 1]

\* config.Load
Load(y) ==
    IF ~y.present
    THEN [EncryptPatterns |-> DefaultEncryptPatterns,
          ExcludePatterns |-> DefaultExcludePatterns,
          MaxCount |-> DefaultMaxCount]
    ELSE [EncryptPatterns |-> IF Len(y.EncryptPatterns) = 0 THEN DefaultEncryptPatterns
                              ELSE y.EncryptPatterns,
          ExcludePatterns |-> IF Len(y.ExcludePatterns) = 0 THEN DefaultExcludePatterns
                              ELSE y.ExcludePatterns,
          MaxCount |-> IF y.MaxCount = 0 THEN DefaultMaxCount ELSE y.MaxCount]

cfg == Load(yaml)

(***************************************************************************)
(* Disk helpers over the state.                                            *)
(***************************************************************************)

\* sync.FileExists on a disk f with explicit directories d and archives z
ExistsIn(f, d, z, p) ==
    \/ p \in DOMAIN f
    \/ p \in d
    \/ p \in DOMAIN z
    \/ \E q \in (DOMAIN f) \cup d \cup (DOMAIN z) : HasPrefix(q, p \o Separator)

FileExists(p) == ExistsIn(fs, dirs, zips, p)

\* sync.WalkFiles
WalkFiles(f, root) ==
    LET rels == SortPaths({RelPath(root, q) : q \in Under(f, root)})
    IN  [i \in 1..Len(rels) |-> Join(root, rels[i])]

\* the working-copy tree of f: repository-relative path -> content, without .git
WorkTree(f) ==
    LET rels == {RelPath(RepoDir, p) : p \in Under(f, RepoDir)}
        tracked == {r \in rels : ~HasPrefix(r, ".git/")}
    IN  [r \in tracked |-> f[Join(RepoDir, r)]]

\* Git.IsRepo
IsRepo(f) == Join(RepoDir, ".git/HEAD") \in DOMAIN f

\* the disk f with the working copy's tracked files replaced by tree t
Checkout(f, old, t) ==
    LET gone == {Join(RepoDir, r) : r \in (DOMAIN old) \ (DOMAIN t)}
        new == {Join(RepoDir, r) : r \in DOMAIN t}
    IN  [q \in ((DOMAIN f) \ gone) \cup new |->
            IF q \in new THEN t[RelPath(RepoDir, q)] ELSE f[q]]

(***************************************************************************)
(* Outcomes of the operations that can fail for reasons outside the model  *)
(* (network, disk).                                                        *)
(***************************************************************************)

Outcomes == {"ok", "fail"}

\* the number of failures among the outcomes os
RECURSIVE Failures(_)
Failures(os) ==
    IF Len(os) = 0 THEN 0 ELSE (IF os[1] = "fail" THEN 1 ELSE 0) + Failures(Tail(os))

\* single-failure hypothesis: at most one operation of a session fails for an outside
\* reason (disk, network)
Charge(os) ==
    /\ Failures(os) <= (IF faulted THEN 0 ELSE 1)
    /\ faulted' = (faulted \/ Failures(os) > 0)

(***************************************************************************)
(* pull: helpers                                                           *)
(***************************************************************************)

\* the tree of the commit the local branch and origin's branch last had in common,
\* when origin's branch has moved on since
BaseTree == ("README.md" :> "# Claude Code Sync\n") @@ ("CLAUDE.md" :> "base")

\* Git.Pull: when origin's branch holds new commits, the pull fast-forwards HEAD and the
\* working copy to it; it does nothing when there are none; it fails when the network
\* does, when tracked files carry uncommitted changes it would overwrite, and when the
\* local branch holds commits of its own (git refuses to reconcile divergent branches
\* without a configured way)
GitPullOk(f, o) ==
    /\ o = "ok"
    /\ behind =>
          /\ head = BaseTree
          /\ \A r \in DOMAIN head :
                Join(RepoDir, r) \in DOMAIN f /\ f[Join(RepoDir, r)] = head[r]

GitPull(f, o) == IF GitPullOk(f, o) /\ behind THEN Checkout(f, head, remote) ELSE f

\* Git.Push: origin takes the commit when the network is up and its branch holds
\* nothing the local HEAD does not
GitPushOk(o) == o = "ok" /\ ~behind

\* the entries createBackupZip stores: the files of claudeDir, named relative to its
\* parent, and claudeJSON as ".claude.json"
ArchiveEntries(f) ==
    LET names == {RelPath(Dir(ClaudeDir), q) : q \in Under(f, ClaudeDir)}
                 \cup (IF ClaudeJSON \in DOMAIN f THEN {".claude.json"} ELSE {})
    IN  [n \in names |-> IF n = ".claude.json" THEN f[ClaudeJSON]
                         ELSE f[Join(Dir(ClaudeDir), n)]]

\* createBackupZip
createBackupZip(z, f, dest, o) ==
    IF o = "fail" THEN z
    ELSE [a \in (DOMAIN z) \cup {dest} |-> IF a = dest THEN ArchiveEntries(f) ELSE z[a]]

\* a pruning that removes the newest archives
pruneBackupsNewest(z, maxCount) ==
    LET backups == SortPaths({a \in DOMAIN z :
                                 /\ HasPrefix(Base(a), "backup-")
                                 /\ HasSuffix(Base(a), ".zip")})
    IN  IF Len(backups) <= maxCount THEN z
        ELSE LET removed == {backups[i] : i \in (maxCount + 1)..Len(backups)}
             IN  [a \in (DOMAIN z) \ removed |-> z[a]]

\* pruneBackups: keep the last maxCount archives in name order
pruneBackups(z, maxCount) ==
    LET backups == SortPaths({a \in DOMAIN z :
                                 /\ HasPrefix(Base(a), "backup-")
                                 /\ HasSuffix(Base(a), ".zip")})
    IN  IF Len(backups) <= maxCount THEN z
        ELSE LET removed == {backups[i] : i \in 1..(Len(backups) - maxCount)}
             IN  [a \in (DOMAIN z) \ removed |-> z[a]]

\* sync.BackupFile at clock t; its error is discarded by runPull
BackupFile(f, src, t, o) ==
    IF src \notin DOMAIN f \/ o = "fail" THEN f
    ELSE WriteFile(f, src \o ".local-backup-" \o Timestamp(t), f[src])

\* runPull: the files the walk passes over (VCS metadata, manifest, README,
\* excluded paths, variants of another platform)
PullSkips(c, relPath) ==
    LET basePath == TrimSuffix(relPath, ".age")
    IN  \/ HasPrefix(relPath, ".git")
        \/ relPath = ".sync-manifest"
        \/ relPath = "README.md"
        \/ ShouldExclude(c, basePath)
        \/ ShouldSkipForPlatform(basePath)

\* a pull that puts the plaintext next to the repository file
PullDestInRepo(relPath) == Join(RepoDir, TrimSuffix(relPath, ".age"))

\* runPull: the destination of a repository file
PullDest(relPath) ==
    IF HasSuffix(relPath, ".age")
    THEN LET actualRelPath == TrimSuffix(relPath, ".age")
         IN  IF actualRelPath = "claude.json" THEN ClaudeJSON
             ELSE Join(ClaudeDir, actualRelPath)
    ELSE Join(ClaudeDir, relPath)

\* a pull that overwrites an existing destination of an encrypted file whatever the strategy
EncDecisionOverwrites(strategy, localExists) == "apply"

\* runPull, encrypted branch: what is done with an encrypted repository file
EncDecision(strategy, localExists) ==
    IF localExists /\ strategy = "ours" THEN "keep" ELSE "apply"

\* runPull, encrypted branch: whether the destination is backed up before it is written
EncBacksUp(localExists) == localExists

\* runPull, plain branch: what is done with a plain repository file
PlainDecision(strategy, localExists, differs) ==
    IF localExists /\ differs /\ strategy = "ours" THEN "keep"
    ELSE IF ~localExists \/ differs THEN "apply"
    ELSE "none"

\* runPull, plain branch: whether the destination is backed up before it is written
PlainBacksUp(localExists, differs) == localExists /\ differs

\* a DecryptFile that creates the destination before it decrypts into it
DecryptFileStreaming(f, identity, srcPath, dstPath, wr) ==
    LET plain == Decrypt(identity, f[srcPath])
    IN  IF ~plain[1] THEN [fs |-> WriteFile(f, dstPath, ""), ok |-> FALSE, wr |-> FALSE]
        ELSE IF wr = "fail" THEN [fs |-> f, ok |-> FALSE, wr |-> TRUE]
        ELSE [fs |-> WriteFile(f, dstPath, plain[2]), ok |-> TRUE, wr |-> TRUE]

\* crypto.DecryptFile on disk f: the ciphertext is read and decrypted in memory, and
\* the destination written afterwards (wr: the outcome of that write); the disk
\* afterwards, whether it succeeded, and whether the write was attempted
DecryptFile(f, identity, srcPath, dstPath, wr) ==
    LET plain == Decrypt(identity, f[srcPath])
    IN  IF ~plain[1] THEN [fs |-> f, ok |-> FALSE, wr |-> FALSE]
        ELSE IF wr = "fail" THEN [fs |-> f, ok |-> FALSE, wr |-> TRUE]
        ELSE [fs |-> WriteFile(f, dstPath, plain[2]), ok |-> TRUE, wr |-> TRUE]

\* runPull, the non-dry-run, non-diff handling of one repository file: the disk
\* afterwards, the error returned ("" for none), and whether a sibling backup and a
\* write of the destination were attempted
ApplyFile(f, c, file, bk, wr) ==
    LET relPath == RelPath(RepoDir, file)
        dest == PullDest(relPath)
        localExists == ExistsIn(f, dirs, zips, dest)
    IN  IF HasSuffix(relPath, ".age")
        THEN IF EncDecision(c.strategy, localExists) = "keep"
             THEN [fs |-> f, err |-> "", bk |-> FALSE, wr |-> FALSE]
             ELSE LET backs == EncBacksUp(localExists) /\ dest \in DOMAIN f
                      f1 == IF backs THEN BackupFile(f, dest, now, bk) ELSE f
                      dec == DecryptFile(f1, c.identity, file, dest, wr)
                      name == TrimSuffix(relPath, ".age")
                  IN  IF ~dec.ok
                      THEN [fs |-> dec.fs, err |-> "failed to decrypt " \o name,
                            bk |-> backs, wr |-> dec.wr]
                      ELSE [fs |-> dec.fs, err |-> "", bk |-> backs, wr |-> TRUE]
        ELSE LET differs == /\ dest \in DOMAIN f
                            /\ Checksum(f[file]) # Checksum(f[dest])
                 what == PlainDecision(c.strategy, localExists, differs)
                 backs == PlainBacksUp(localExists, differs) /\ dest \in DOMAIN f
             IN  IF what # "apply"
                 THEN [fs |-> f, err |-> "", bk |-> FALSE, wr |-> FALSE]
                 ELSE LET f1 == IF backs THEN BackupFile(f, dest, now, bk) ELSE f
                      IN  IF wr = "fail"
                          THEN [fs |-> f1, err |-> "failed to copy " \o relPath,
                                bk |-> backs, wr |-> TRUE]
                          ELSE [fs |-> WriteFile(f1, dest, f[file]), err |-> "",
                                bk |-> backs, wr |-> TRUE]

\* expandPluginPaths: rewrite the .json payloads under claudeDir/plugins that hold
\* the placeholder
expandPluginPaths(f, claudeDir) ==
    LET pluginsDir == Join(claudeDir, "plugins")
        hit == {q \in Under(f, pluginsDir) :
                   HasSuffix(q, ".json") /\ Contains(f[q], ClaudeDirPlaceholder)}
    IN  [q \in DOMAIN f |-> IF q \in hit THEN ExpandPathsInJSON(f[q], claudeDir) ELSE f[q]]

(***************************************************************************)
(* The files of the modelled machines.                                     *)
(***************************************************************************)

\* the identity of this machine, and one it does not hold
IdentityK == "K"
IdentityJ == "J"

\* the README CreateInitialCommit writes
InitialReadme == "# Claude Code Sync\n"

\* the payload of a plugin registry that embeds the config directory
PluginLocal == "{\"dir\": \"/h/.claude/plugins/x\"}"
PluginPortable == "{\"dir\": \"$CLAUDE_DIR/plugins/x\"}"

\* a payload an earlier pull with --ours copied and left unexpanded
PluginUnexpanded == "{\"dir\": \"$CLAUDE_DIR/plugins/y\"}"

\* a populated ~/.claude and ~/.claude.json
LocalFiles ==
    (Join(ClaudeDir, "CLAUDE.md") :> "mine")
    @@ (Join(ClaudeDir, "keep.md") :> "same")
    @@ (Join(ClaudeDir, "todo.md") :> "mine2")
    @@ (Join(ClaudeDir, "claude.json") :> "inner")
    @@ (Join(ClaudeDir, "README.md") :> "readme")
    @@ (Join(ClaudeDir, "x.windows.md") :> "win")
    @@ (Join(ClaudeDir, "settings.json") :> "secret")
    @@ (Join(ClaudeDir, "plans/settings.json") :> "plan")
    @@ (Join(ClaudeDir, "plugins/p.json") :> PluginLocal)
    @@ (Join(ClaudeDir, "plugins/q.json") :> PluginUnexpanded)
    @@ (ClaudeJSON :> "json")

\* the tree other machines pushed to origin: todo.md was pushed plain by one and
\* encrypted by another whose config encrypts it
RemoteTree(identity) ==
    ("README.md" :> InitialReadme)
    @@ ("CLAUDE.md" :> "theirs")
    @@ ("keep.md" :> "same")
    @@ ("todo.md" :> "new")
    @@ ("agents/a.md" :> "agent")
    @@ ("todo.md.age" :> Encrypt(Recipient(IdentityK), 59, "new2"))
    @@ ("x.windows.md" :> "win2")
    @@ ("settings.json.age" :> Encrypt(Recipient(identity), 62, "secret"))
    @@ ("claude.json.age" :> Encrypt(Recipient(IdentityK), 61, "json2"))
    @@ ("plans/settings.json.age" :> Encrypt(Recipient(IdentityK), 60, "plan2"))
    @@ ("plugins/p.json" :> PluginPortable)
    @@ (".sync-manifest" :> "# claude-code-sync manifest - 2025-01-01T00:00:00Z\n")

InitialTree == ("README.md" :> InitialReadme)

Remotes == {InitialTree, RemoteTree(IdentityK), RemoteTree(IdentityJ)}

Yamls == {NoYaml, CustomYaml}

\* the relative names that occur under ~/.claude and in the repository, with the
\* names of their sibling backups
Names ==
    LET locals == {RelPath(ClaudeDir, q) : q \in (DOMAIN LocalFiles) \ {ClaudeJSON}}
        repos == (DOMAIN RemoteTree(IdentityK)) \cup {".git/HEAD"}
        base == locals \cup repos \cup {TrimSuffix(r, ".age") : r \in repos}
                \cup {r \o ".age" : r \in locals}
    IN  base \cup {n \o ".local-backup-" \o Timestamp(t) : n \in base, t \in 1..MaxClock}

\* the verdicts of the classifiers on Names, computed once per configuration
ExcludedNames == [y \in Yamls |-> {r \in Names : ShouldExclude(Load(y), r)}]
EncryptedNames == [y \in Yamls |-> {r \in Names : ShouldEncrypt(Load(y), r)}]
PullSkippedNames == [y \in Yamls |-> {r \in Names : PullSkips(Load(y), r)}]

\* the verdict of shouldExclude under the loaded configuration
Excluded(relPath) ==
    IF relPath \in Names THEN relPath \in ExcludedNames[yaml] ELSE ShouldExclude(cfg, relPath)
Encrypted(relPath) ==
    IF relPath \in Names THEN relPath \in EncryptedNames[yaml] ELSE ShouldEncrypt(cfg, relPath)

\* a pull that passes over no file of the repository
PullSkippedNever(relPath) == FALSE

\* the files runPull passes over, under the loaded configuration
PullSkipped(relPath) ==
    IF relPath \in Names THEN relPath \in PullSkippedNames[yaml] ELSE PullSkips(cfg, relPath)

(***************************************************************************)
(* pull: the command                                                       *)
(***************************************************************************)

\* the files of disk f below directory d, with their content
Part(f, d) == [p \in Under(f, d) |-> f[p]]

\* the local config directory and the extra top-level config file on disk f
LocalSide(f) ==
    [p \in Under(f, ClaudeDir) \cup ({ClaudeJSON} \cap DOMAIN f) |-> f[p]]

\* no push of this machine has succeeded yet
NeverPushed == [valid |-> FALSE, side |-> <<>>]

NoCmd == [name |-> "none", dry |-> FALSE, ours |-> FALSE, theirs |-> FALSE, diff |-> FALSE,
          strategy |-> "", identity |-> ""]

CanStart == pc \in {"idle", "done"} /\ nCmds < MaxCmds /\ ~faulted

\* after an operation has failed, the session goes on only with the re-run of a push
\* that returned an error
CanRetry ==
    /\ pc = "done" /\ nCmds < MaxCmds /\ faulted
    /\ cmd.name = "push" /\ ~cmd.dry /\ result # ""

\* a command that creates the config directory before it returns err
RefuseAfterEnsureDir(c, err) ==
    /\ pc' = "done"
    /\ cmd' = c
    /\ result' = err
    /\ walk' = <<>>
    /\ pre' = fs
    /\ preZips' = zips
    /\ processed' = <<>>
    /\ vcsOps' = <<>>
    /\ nCmds' = nCmds + 1
    /\ dirs' = dirs \cup {ClaudeDir}
    /\ UNCHANGED <<fs, zips, yaml, hasRemote, behind, archived, report, remote, head, now, seed,
                   faulted, origin, pushed>>

\* a command that returns err at once
Refuse(c, err) ==
    /\ pc' = "done"
    /\ cmd' = c
    /\ result' = err
    /\ walk' = <<>>
    /\ pre' = fs
    /\ preZips' = zips
    /\ processed' = <<>>
    /\ vcsOps' = <<>>
    /\ nCmds' = nCmds + 1
    /\ UNCHANGED <<fs, dirs, zips, yaml, hasRemote, behind, archived, report, remote, head, now, seed, faulted,
                   origin, pushed>>

\* runPull: the error for more than one strategy flag
MutuallyExclusive == "--ours, --theirs, and --diff are mutually exclusive"

\* a count that sees only --ours
FlagCountOursOnly(ours, theirs, diff) == IF ours THEN 1 ELSE 0

\* runPull: the number of strategy flags given
FlagCount(ours, theirs, diff) ==
    (IF ours THEN 1 ELSE 0) + (IF theirs THEN 1 ELSE 0) + (IF diff THEN 1 ELSE 0)

\* an archive step that does not look at --dry-run
BacksUpAlways(dry) == FileExists(ClaudeDir)

\* runPull: whether the current config is archived
BacksUp(dry) == FileExists(ClaudeDir) /\ ~dry

\* a pull that expands placeholders whenever it is not a dry run
ExpandsUnlessDry(c) == ~c.dry

\* runPull: whether placeholders are expanded after the loop
Expands(c) == ~c.dry /\ c.strategy = "theirs"

\* a pull that ends when the VCS pull fails
AfterPullFatal(ok) == IF ok THEN "pull_files" ELSE "done"

\* runPull: a VCS pull that fails is logged as a warning and the command goes on
AfterPull(ok) == "pull_files"

\* runPull up to the walk of the repository: flag validation, prerequisites, key and
\* config, VCS pull, archive of the current config, pruning, EnsureDir
PullBegin(dry, ours, theirs, diff) ==
    /\ CanStart
    /\ LET flagCount == FlagCount(ours, theirs, diff)
           strategy == IF ours THEN "ours" ELSE IF diff THEN "diff" ELSE "theirs"
           c == [name |-> "pull", dry |-> dry, ours |-> ours, theirs |-> theirs,
                 diff |-> diff, strategy |-> strategy,
                 identity |-> IF KeyFile \in DOMAIN fs THEN ParseKey(fs[KeyFile]) ELSE ""]
       IN  IF flagCount > 1
           THEN Refuse(c, MutuallyExclusive)
           ELSE IF ~FileExists(KeyFile) THEN Refuse(c, "not initialized")
           ELSE IF ~FileExists(RepoDir) THEN Refuse(c, "no repo found")
           ELSE IF c.identity = "" THEN Refuse(c, "failed to load key")
           ELSE \E net \in Outcomes, zo \in Outcomes :
                  LET pulls == hasRemote /\ ~dry
                      f1 == IF pulls THEN GitPull(fs, net) ELSE fs
                      backs == BacksUp(dry)
                      backupPath == Join(BackupDir, "backup-" \o Timestamp(now) \o ".zip")
                      z1 == IF backs
                            THEN pruneBackups(createBackupZip(zips, fs, backupPath, zo),
                                              cfg.MaxCount)
                            ELSE zips
                  IN  /\ (net = "fail" => pulls)
                      /\ (zo = "fail" => backs)
                      /\ Charge(<<net, zo>>)
                      /\ fs' = f1
                      /\ head' = IF pulls /\ GitPullOk(fs, net) /\ behind THEN remote ELSE head
                      /\ behind' = (behind /\ ~(pulls /\ GitPullOk(fs, net)))
                      /\ zips' = z1
                      /\ archived' = IF /\ backs /\ zo = "ok"
                                        /\ \A i \in 1..Len(archived) : archived[i] # backupPath
                                     THEN Append(archived, backupPath)
                                     ELSE archived
                      /\ dirs' = IF dry THEN dirs ELSE dirs \cup {ClaudeDir}
                      /\ vcsOps' = IF pulls THEN <<"pull">> ELSE <<>>
                      /\ walk' = SelectSeq(WalkFiles(f1, RepoDir),
                                         LAMBDA q : ~PullSkipped(RelPath(RepoDir, q)))
                      /\ pc' = AfterPull(~pulls \/ GitPullOk(fs, net))
                      /\ cmd' = c
                      /\ result' = ""
                      /\ pre' = fs
                      /\ preZips' = zips
                      /\ processed' = <<>>
                      /\ nCmds' = nCmds + 1
                      /\ UNCHANGED <<yaml, hasRemote, remote, now, seed, origin, report, pushed>>

\* a pull that goes on after the error of a file
PullAbortedGoesOn == "pull_files"

\* runPull: the error of a file is returned and ends the command
PullAborted == "done"

\* runPull: one iteration of the loop over the repository's files
PullFile ==
    /\ pc = "pull_files"
    /\ walk # <<>>
    /\ LET file == Head(walk)
           relPath == RelPath(RepoDir, file)
           dest == PullDest(relPath)
           entry == [file |-> file, dest |-> dest, existed |-> FileExists(dest),
                     had |-> IF dest \in DOMAIN fs THEN fs[dest] ELSE ""]
       IN  IF cmd.dry
           THEN /\ walk' = Tail(walk)
                /\ processed' = Append(processed, entry)
                /\ UNCHANGED <<fs, pc, result, faulted>>
           ELSE IF cmd.strategy = "diff"
           THEN /\ walk' = Tail(walk)
                /\ processed' = IF /\ ~HasSuffix(relPath, ".age")
                                   /\ dest \in DOMAIN fs
                                   /\ Checksum(fs[file]) = Checksum(fs[dest])
                                THEN processed
                                ELSE Append(processed, entry)
                /\ UNCHANGED <<fs, pc, result, faulted>>
           ELSE \E bk \in Outcomes, wr \in Outcomes :
                  LET r == ApplyFile(fs, cmd, file, bk, wr)
                  IN  /\ (bk = "fail" => r.bk)
                      /\ (wr = "fail" => r.wr)
                      /\ Charge(<<bk, wr>>)
                      /\ fs' = r.fs
                      /\ IF r.err = ""
                         THEN /\ walk' = Tail(walk)
                              /\ processed' = Append(processed, entry)
                              /\ UNCHANGED <<pc, result>>
                         ELSE /\ walk' = <<>>
                              /\ pc' = PullAborted
                              /\ result' = r.err
                              /\ UNCHANGED processed
    /\ UNCHANGED <<dirs, zips, yaml, hasRemote, behind, archived, report, remote, head, now, seed, cmd, pre, preZips,
                   vcsOps, nCmds, origin, pushed>>

\* runPull after the loop: placeholder expansion (theirs only) and return
PullFinish ==
    /\ pc = "pull_files"
    /\ walk = <<>>
    /\ fs' = IF Expands(cmd) THEN expandPluginPaths(fs, ClaudeDir) ELSE fs
    /\ pc' = "done"
    /\ result' = ""
    /\ UNCHANGED <<dirs, zips, yaml, hasRemote, behind, archived, report, remote, head, now, seed, cmd, walk, pre,
                   preZips, processed, vcsOps, nCmds, faulted, origin, pushed>>

(***************************************************************************)
(* push                                                                    *)
(***************************************************************************)

\* runPush: where a local file goes in the repository working copy
PushDest(relPath) ==
    IF Encrypted(relPath) THEN Join(RepoDir, relPath) \o ".age"
    ELSE Join(RepoDir, relPath)

\* runPush: what is written for a local file (crypto.EncryptFile or sync.CopyFile)
PushContent(relPath, pubKey, n, data) ==
    IF Encrypted(relPath) THEN Encrypt(pubKey, n, data) ELSE data

\* a normalizePluginPaths that deletes the payloads it has nothing to rewrite in
normalizePluginPathsPruning(f, repoDir, claudeDir) ==
    LET pluginsDir == Join(repoDir, "plugins")
        hit == {q \in Under(f, pluginsDir) :
                   HasSuffix(q, ".json") /\ Contains(f[q], claudeDir)}
        gone == {q \in Under(f, pluginsDir) : HasSuffix(q, ".json")} \ hit
    IN  [q \in (DOMAIN f) \ gone |->
            IF q \in hit THEN NormalizePathsInJSON(f[q], claudeDir) ELSE f[q]]

\* normalizePluginPaths: rewrite the .json payloads under repoDir/plugins that hold
\* the config directory's path
normalizePluginPaths(f, repoDir, claudeDir) ==
    LET pluginsDir == Join(repoDir, "plugins")
        hit == {q \in Under(f, pluginsDir) :
                   /\ HasSuffix(q, ".json")
                   /\ \/ Contains(f[q], claudeDir)
                      \/ Contains(f[q], ToSlash(claudeDir))
                      \/ Contains(f[q], ReplaceAll(claudeDir, "\\", "\\\\"))}
    IN  [q \in DOMAIN f |-> IF q \in hit THEN NormalizePathsInJSON(f[q], claudeDir) ELSE f[q]]

\* a manifest that leaves out the files the pattern set excludes
GenerateManifestFiltered(f, repoDir) ==
    LET files == WalkFiles(f, repoDir)
        keep == SelectSeq(files, LAMBDA q :
                    ~(HasPrefix(RelPath(repoDir, q), ".git")
                      \/ RelPath(repoDir, q) = ".sync-manifest"
                      \/ Excluded(TrimSuffix(RelPath(repoDir, q), ".age"))))
    IN  [i \in 1..Len(keep) |->
            [Checksum |-> Checksum(f[keep[i]]), Path |-> RelPath(repoDir, keep[i])]]

\* GenerateManifest: the entries, in walk order
GenerateManifest(f, repoDir) ==
    LET files == WalkFiles(f, repoDir)
        keep == SelectSeq(files, LAMBDA q :
                    ~(HasPrefix(RelPath(repoDir, q), ".git")
                      \/ RelPath(repoDir, q) = ".sync-manifest"))
    IN  [i \in 1..Len(keep) |->
            [Checksum |-> Checksum(f[keep[i]]), Path |-> RelPath(repoDir, keep[i])]]

\* WriteManifest: the text of the manifest written at clock t
RECURSIVE ManifestLines(_)
ManifestLines(entries) ==
    IF Len(entries) = 0 THEN ""
    ELSE entries[1].Checksum \o "  " \o entries[1].Path \o "\n"
         \o ManifestLines(Tail(entries))

ManifestText(entries, t) ==
    "# claude-code-sync manifest - " \o RFC3339(t) \o "\n"
    \o "# Format: checksum  path" \o "\n" \o ManifestLines(entries)

ManifestPath == Join(RepoDir, ".sync-manifest")

\* strings.TrimSpace
WhiteSpace == {" ", "\t", "\r", "\n"}

RECURSIVE TrimSpace(_)
TrimSpace(s) ==
    IF Len(s) = 0 THEN s
    ELSE IF SubSeq(s, 1, 1) \in WhiteSpace THEN TrimSpace(SubSeq(s, 2, Len(s)))
    ELSE IF SubSeq(s, Len(s), Len(s)) \in WhiteSpace THEN TrimSpace(SubSeq(s, 1, Len(s) - 1))
    ELSE s

\* strings.SplitN(line, "  ", 2)
SplitN2(line) ==
    LET idx == {i \in 1..(Len(line) - 1) : SubSeq(line, i, i + 1) = "  "}
    IN  IF idx = {} THEN <<line>>
        ELSE LET i == CHOOSE k \in idx : \A j \in idx : k <= j
             IN  <<SubSeq(line, 1, i - 1), SubSeq(line, i + 2, Len(line))>>

\* ReadManifest: the entries of a manifest text; blank lines, comments and lines that
\* are not `checksum  path` are passed over
RECURSIVE ParseLines(_)
ParseLines(lines) ==
    IF Len(lines) = 0 THEN <<>>
    ELSE LET line == TrimSpace(Head(lines))
             parts == SplitN2(line)
         IN  (IF line = "" \/ HasPrefix(line, "#") \/ Len(parts) # 2 THEN <<>>
              ELSE <<[Checksum |-> parts[1], Path |-> parts[2]]>>)
             \o ParseLines(Tail(lines))

ReadManifest(text) == ParseLines(Split(text, "\n"))

\* a manifest taken over the working copy as it was when the command started
WithManifestStale(f, t) ==
    WriteFile(f, ManifestPath, ManifestText(GenerateManifest(pre, RepoDir), t))

\* runPush: the working copy with the manifest generated over it and written, at clock t
WithManifest(f, t) ==
    WriteFile(f, ManifestPath, ManifestText(GenerateManifest(f, RepoDir), t))

\* a staging that always reports changes
HasChangesAlways(tree, h) == TRUE

\* Git.HasChanges after AddAll: the index differs from the HEAD commit
HasChanges(tree, h) == tree # h

\* a push that goes on after the error of a transfer
PushAbortedGoesOn == "push_files"

\* runPush: the error of a transfer is returned and ends the command
PushAborted == "done"

\* runPush: the error returned for the local file relPath
TransferError(relPath) ==
    (IF Encrypted(relPath) THEN "failed to encrypt " ELSE "failed to copy ") \o relPath

\* runPush up to the walk of the local config directory
PushBegin(dry) ==
    /\ CanStart \/ (CanRetry /\ ~dry)
    /\ LET c == [name |-> "push", dry |-> dry, ours |-> FALSE, theirs |-> FALSE,
                 diff |-> FALSE, strategy |-> "",
                 identity |-> IF KeyFile \in DOMAIN fs THEN ParseKey(fs[KeyFile]) ELSE ""]
       IN  IF ~FileExists(KeyFile) THEN Refuse(c, "not initialized")
           ELSE IF ~FileExists(ClaudeDir) THEN Refuse(c, "no ~/.claude directory found")
           ELSE IF c.identity = "" THEN Refuse(c, "failed to get public key")
           ELSE /\ pc' = "push_files"
                /\ cmd' = c
                /\ walk' = SelectSeq(WalkFiles(fs, ClaudeDir),
                                   LAMBDA q : ~Excluded(RelPath(ClaudeDir, q)))
                /\ result' = ""
                /\ pre' = fs
                /\ preZips' = zips
                /\ processed' = <<>>
                /\ vcsOps' = <<>>
                /\ nCmds' = nCmds + 1
                /\ UNCHANGED <<fs, dirs, zips, yaml, hasRemote, behind, archived, report, remote, head, now, seed,
                               faulted, origin, pushed>>

\* runPush: one iteration of the loop over the local files
PushFile ==
    /\ pc = "push_files"
    /\ walk # <<>>
    /\ LET file == Head(walk)
           relPath == RelPath(ClaudeDir, file)
           dest == PushDest(relPath)
           entry == [file |-> file, dest |-> dest, existed |-> FileExists(dest),
                     had |-> IF dest \in DOMAIN fs THEN fs[dest] ELSE ""]
       IN  IF cmd.dry
           THEN /\ walk' = Tail(walk)
                /\ processed' = Append(processed, entry)
                /\ UNCHANGED <<fs, seed, pc, result, faulted>>
           ELSE \E wr \in Outcomes :
                /\ Charge(<<wr>>)
                /\ IF wr = "ok"
                  THEN /\ fs' = WriteFile(fs, dest,
                                   PushContent(relPath, Recipient(cmd.identity),
                                               seed + 1, fs[file]))
                       /\ seed' = seed + 1
                       /\ walk' = Tail(walk)
                       /\ processed' = Append(processed, entry)
                       /\ UNCHANGED <<pc, result>>
                  ELSE /\ walk' = <<>>
                       /\ pc' = PushAborted
                       /\ result' = TransferError(relPath)
                       /\ UNCHANGED <<fs, seed, processed>>
    /\ UNCHANGED <<dirs, zips, yaml, hasRemote, behind, archived, report, remote, head, now, cmd, pre, preZips,
                   vcsOps, nCmds, origin, pushed>>

\* runPush after the loop: the extra config file, path normalisation, the manifest,
\* stage, commit, VCS push
PushFinish ==
    /\ pc = "push_files"
    /\ walk = <<>>
    /\ pc' = "done"
    /\ LET extra == ClaudeJSON \in DOMAIN fs
           extraDest == Join(RepoDir, "claude.json.age")
           entry == [file |-> ClaudeJSON, dest |-> extraDest, existed |-> FileExists(extraDest),
                     had |-> IF extraDest \in DOMAIN fs THEN fs[extraDest] ELSE ""]
           counted == IF extra THEN Append(processed, entry) ELSE processed
       IN  IF cmd.dry
           THEN /\ processed' = counted
                /\ result' = ""
                /\ UNCHANGED <<fs, seed, head, remote, vcsOps, faulted>>
           ELSE \E ex \in Outcomes, mf \in Outcomes, cm \in Outcomes, net \in Outcomes :
                  LET f1 == IF extra
                            THEN WriteFile(fs, extraDest,
                                     Encrypt(Recipient(cmd.identity), seed + 1,
                                             fs[ClaudeJSON]))
                            ELSE fs
                      f2 == normalizePluginPaths(f1, RepoDir, ClaudeDir)
                      f3 == WithManifest(f2, now)
                      tree == WorkTree(f3)
                      hasChanges == HasChanges(tree, head)
                  IN  /\ (ex = "fail" => extra)
                      /\ (mf = "fail" => ex = "ok")
                      /\ (cm = "fail" => ex = "ok" /\ mf = "ok" /\ hasChanges)
                      /\ (net = "fail" => ex = "ok" /\ mf = "ok" /\ cm = "ok"
                                          /\ hasChanges /\ hasRemote)
                      /\ Charge(<<ex, mf, cm, net>>)
                      /\ IF ex = "fail"
                         THEN /\ result' = "failed to encrypt claude.json"
                              /\ UNCHANGED <<fs, seed, head, remote, vcsOps, processed>>
                         ELSE /\ seed' = IF extra THEN seed + 1 ELSE seed
                              /\ processed' = counted
                              /\ IF mf = "fail"
                                 THEN /\ fs' = f2
                                      /\ result' = "failed to write manifest"
                                      /\ UNCHANGED <<head, remote, vcsOps>>
                                 ELSE /\ fs' = f3
                                      /\ IF ~IsRepo(fs)
                                         THEN /\ result' = "git add failed"
                                              /\ vcsOps' = <<"addAll">>
                                              /\ UNCHANGED <<head, remote>>
                                         ELSE IF ~hasChanges
                                         THEN /\ result' = ""
                                              /\ vcsOps' = <<"addAll">>
                                              /\ UNCHANGED <<head, remote>>
                                         ELSE IF cm = "fail"
                                         THEN /\ result' = "git commit failed"
                                              /\ vcsOps' = <<"addAll", "commit">>
                                              /\ UNCHANGED <<head, remote>>
                                         ELSE IF ~hasRemote
                                         THEN /\ result' = ""
                                              /\ head' = tree
                                              /\ vcsOps' = <<"addAll", "commit">>
                                              /\ UNCHANGED remote
                                         ELSE IF ~GitPushOk(net)
                                         THEN /\ result' = "git push failed"
                                              /\ head' = tree
                                              /\ vcsOps' = <<"addAll", "commit", "push">>
                                              /\ UNCHANGED remote
                                         ELSE /\ result' = ""
                                              /\ head' = tree
                                              /\ remote' = tree
                                              /\ vcsOps' = <<"addAll", "commit", "push">>
    /\ pushed' = IF ~cmd.dry /\ result' = ""
                 THEN [valid |-> TRUE, side |-> LocalSide(fs)]
                 ELSE pushed
    /\ UNCHANGED <<dirs, zips, yaml, hasRemote, behind, archived, report, now, cmd, walk, pre, preZips, nCmds,
                   origin>>

(***************************************************************************)
(* verify                                                                  *)
(***************************************************************************)

\* runVerify: the error when the repository holds no manifest
NoManifest == "no manifest found. Run 'claude-code-sync push' first"

\* a check that passes entries whose file is gone
VerifyEntryLenient(f, d, z, entry) ==
    LET fullPath == Join(RepoDir, entry.Path)
    IN  IF ~ExistsIn(f, d, z, fullPath) THEN "OK"
        ELSE IF fullPath \notin DOMAIN f THEN "Failed to checksum"
        ELSE IF Checksum(f[fullPath]) # entry.Checksum THEN "Checksum mismatch"
        ELSE "OK"

\* runVerify: the verdict for one manifest entry (a directory cannot be digested)
VerifyEntry(f, d, z, entry) ==
    LET fullPath == Join(RepoDir, entry.Path)
    IN  IF ~ExistsIn(f, d, z, fullPath) THEN "Missing"
        ELSE IF fullPath \notin DOMAIN f THEN "Failed to checksum"
        ELSE IF Checksum(f[fullPath]) # entry.Checksum THEN "Checksum mismatch"
        ELSE "OK"

\* runVerify: the loop over the manifest's entries, with the line logged for each
RECURSIVE VerifyEntries(_, _, _, _)
VerifyEntries(f, d, z, entries) ==
    IF Len(entries) = 0 THEN <<>>
    ELSE <<[Path |-> Head(entries).Path, verdict |-> VerifyEntry(f, d, z, Head(entries))]>>
         \o VerifyEntries(f, d, z, Tail(entries))

\* the working copy has been edited by hand since the last push
Edited == pc = "edited" /\ nCmds < MaxCmds

\* runVerify
Verify ==
    /\ CanStart \/ Edited
    /\ cmd' = [NoCmd EXCEPT !.name = "verify"]
    /\ pushed' = pushed
    /\ report' = IF ~FileExists(ManifestPath) THEN <<>>
                 ELSE VerifyEntries(fs, dirs, zips, ReadManifest(fs[ManifestPath]))
    /\ LET errors == Cardinality({i \in 1..Len(report') : report'[i].verdict # "OK"})
       IN  result' = IF ~FileExists(ManifestPath) THEN NoManifest
                     ELSE IF errors = 0 THEN ""
                     ELSE ToString(errors) \o " file(s) failed verification"
    /\ pc' = IF Edited THEN "verified" ELSE "done"
    /\ walk' = <<>>
    /\ pre' = fs
    /\ preZips' = zips
    /\ processed' = <<>>
    /\ vcsOps' = <<>>
    /\ nCmds' = nCmds + 1
    /\ UNCHANGED <<fs, dirs, zips, yaml, hasRemote, behind, archived, remote, head, now, seed,
                   faulted, origin>>

(***************************************************************************)
(* init, import-key, reset, unlink, status                                 *)
(***************************************************************************)

\* the identity crypto.GenerateKey draws
GeneratedIdentity == "G"

\* a command that ends in one step: what it leaves of the running command's history
EndsAtOnce(c, r) ==
    /\ pc' = "done"
    /\ cmd' = c
    /\ result' = r
    /\ walk' = <<>>
    /\ pre' = fs
    /\ preZips' = zips
    /\ processed' = <<>>
    /\ vcsOps' = <<>>
    /\ nCmds' = nCmds + 1

\* runInit, with or without a repository URL
InitCmd(url) ==
    /\ CanStart
    /\ LET c == [NoCmd EXCEPT !.name = "init"]
           f1 == IF FileExists(KeyFile) THEN fs
                 ELSE WriteFile(fs, KeyFile, KeyFileContent(GeneratedIdentity))
           gitDir == (Join(RepoDir, ".git/HEAD") :> "ref: refs/heads/main\n")
       IN  IF KeyFile \in DOMAIN fs /\ ParseKey(fs[KeyFile]) = ""
           THEN /\ EndsAtOnce(c, "no AGE-SECRET-KEY found in content")
                /\ dirs' = dirs \cup {SyncDir, BackupDir}
                /\ UNCHANGED <<fs, zips, yaml, hasRemote, behind, archived, report, remote,
                               head, now, seed, faulted, origin, pushed>>
           ELSE IF IsRepo(fs)
           THEN /\ EndsAtOnce(c, "")
                /\ fs' = f1
                /\ dirs' = dirs \cup {SyncDir, BackupDir}
                /\ UNCHANGED <<zips, yaml, hasRemote, behind, archived, report, remote,
                               head, now, seed, faulted, origin, pushed>>
           ELSE IF url
           THEN \E net \in Outcomes :
                  /\ Charge(<<net>>)
                  /\ IF net = "fail" \/ Under(fs, RepoDir) # {}
                     THEN /\ EndsAtOnce(c, "failed to clone")
                          /\ fs' = f1
                          /\ dirs' = dirs \cup {SyncDir, BackupDir}
                          /\ UNCHANGED <<hasRemote, head, behind>>
                     ELSE /\ EndsAtOnce(c, "")
                          /\ fs' = gitDir
                                    @@ [q \in {Join(RepoDir, r) : r \in DOMAIN remote} |->
                                           remote[RelPath(RepoDir, q)]]
                                    @@ f1
                          /\ dirs' = dirs \cup {SyncDir, BackupDir, RepoDir}
                          /\ hasRemote' = TRUE
                          /\ head' = remote
                          /\ behind' = FALSE
                  /\ UNCHANGED <<zips, yaml, archived, report, remote, now, seed, origin, pushed>>
           ELSE /\ EndsAtOnce(c, "")
                /\ fs' = WriteFile(gitDir @@ f1, Join(RepoDir, "README.md"), InitialReadme)
                /\ dirs' = dirs \cup {SyncDir, BackupDir, RepoDir}
                /\ head' = ("README.md" :> InitialReadme)
                /\ UNCHANGED <<zips, yaml, hasRemote, behind, archived, report, remote,
                               now, seed, faulted, origin, pushed>>

\* what the user answers to a confirmation prompt, and what is pasted as a key
Answers == {"Y", "yes", "y", "n"}
Pasted == {"# public key: age1J\n" \o SecretKeyPrefix \o IdentityJ, "AGE-SECRET-KEY-", "hello"}

\* an import that takes every answer for a yes
ImportConfirmedAlways(answer) == TRUE

\* runImportKey: whether the answer confirms the overwrite
ImportConfirmed(answer) == ToLower(TrimSpace(answer)) \in {"y", "yes"}

\* runReset: whether the answer confirms the reset
ResetConfirmed(answer) == TrimSpace(answer) = "yes"

\* runImportKey
ImportKey(answer, keyContent) ==
    /\ CanStart
    /\ LET asked == FileExists(KeyFile)
           c == [name |-> "import-key", dry |-> FALSE, ours |-> FALSE, theirs |-> FALSE,
                 diff |-> FALSE, strategy |-> "", identity |-> "",
                 answer |-> IF asked THEN answer ELSE "", pasted |-> keyContent]
       IN  /\ (~asked => answer = "n")
           /\ IF asked /\ ~ImportConfirmed(answer)
              THEN EndsAtOnce(c, "aborted") /\ UNCHANGED fs
              ELSE IF ParseKey(keyContent) = ""
              THEN EndsAtOnce(c, "invalid key format") /\ UNCHANGED fs
              ELSE /\ EndsAtOnce(c, "")
                   /\ fs' = WriteFile(fs, KeyFile, keyContent \o "\n")
    /\ dirs' = dirs \cup {SyncDir}
    /\ UNCHANGED <<zips, yaml, hasRemote, behind, archived, report, remote, head, now, seed,
                   faulted, origin, pushed>>

\* runReset, with or without --keep-key
Reset(answer, keepKey) ==
    /\ CanStart
    /\ LET asked == FileExists(SyncDir)
           c == [name |-> "reset", dry |-> FALSE, ours |-> FALSE, theirs |-> FALSE,
                 diff |-> FALSE, strategy |-> "", identity |-> "",
                 answer |-> IF asked THEN answer ELSE "", keepKey |-> keepKey]
           gone == IF keepKey THEN Under(fs, RepoDir) ELSE Under(fs, SyncDir)
       IN  /\ (~asked => answer = "n")
           /\ EndsAtOnce(c, "")
           /\ IF asked /\ ResetConfirmed(answer)
              THEN /\ fs' = [q \in (DOMAIN fs) \ gone |-> fs[q]]
                   /\ dirs' = dirs \ (IF keepKey THEN {RepoDir, BackupDir}
                                       ELSE {SyncDir, RepoDir, BackupDir})
                   /\ zips' = <<>>
                   /\ archived' = <<>>
                   /\ yaml' = NoYaml
                   /\ hasRemote' = FALSE
                   /\ behind' = FALSE
                   /\ head' = <<>>
              ELSE UNCHANGED <<fs, dirs, zips, archived, yaml, hasRemote, behind, head>>
    /\ UNCHANGED <<report, remote, now, seed, faulted, origin, pushed>>

\* runUnlink: the remote is removed from the repository, and the config file with it
Unlink ==
    /\ CanStart
    /\ EndsAtOnce([NoCmd EXCEPT !.name = "unlink"], "")
    /\ IF FileExists(RepoDir) /\ hasRemote
       THEN hasRemote' = FALSE /\ behind' = FALSE /\ yaml' = NoYaml
       ELSE UNCHANGED <<hasRemote, behind, yaml>>
    /\ UNCHANGED <<fs, dirs, zips, archived, report, remote, head, now, seed, faulted,
                   origin, pushed>>

\* runStatus: it reads the repository and the config directory
Status ==
    /\ CanStart
    /\ EndsAtOnce([NoCmd EXCEPT !.name = "status"],
                  IF FileExists(RepoDir) THEN "" ELSE "no repo found")
    /\ UNCHANGED <<fs, dirs, zips, yaml, hasRemote, behind, archived, report, remote, head,
                   now, seed, faulted, origin, pushed>>

(***************************************************************************)
(* The environment: time passes, the working copy is edited by hand.       *)
(***************************************************************************)

\* the repository files a hand edit changes or removes
EditTargets == {"CLAUDE.md", "settings.json.age"}

\* after a push, files of the working copy are changed or removed, or a file is added,
\* by hand; the session then goes on only with verify
HandEdit ==
    /\ \/ CanStart /\ pc = "done" /\ cmd.name = "push" /\ ~cmd.dry /\ result = ""
       \/ Edited
    /\ \/ \E r \in EditTargets :
             /\ Join(RepoDir, r) \in DOMAIN fs
             /\ \/ fs' = WriteFile(fs, Join(RepoDir, r), "edited")
                \/ fs' = [q \in (DOMAIN fs) \ {Join(RepoDir, r)} |-> fs[q]]
       \/ fs' = WriteFile(fs, Join(RepoDir, "notes.txt"), "note")
    /\ fs' # fs
    /\ pc' = "edited"
    /\ UNCHANGED <<dirs, zips, yaml, hasRemote, behind, archived, report, remote, head, now, seed,
                   cmd, walk, result, pre, preZips, processed, vcsOps, nCmds, faulted,
                   origin, pushed>>

Tick ==
    /\ pc = "done"
    /\ CanStart \/ CanRetry
    /\ now < MaxClock
    /\ now' = now + 1
    /\ UNCHANGED <<fs, dirs, zips, yaml, hasRemote, behind, archived, report, remote, head, seed, pc, cmd, walk,
                   result, pre, preZips, processed, vcsOps, nCmds, faulted, origin, pushed>>

\* a second machine is set up from the remote the last push reached: `init` with the
\* remote's URL clones it, `import-key` installs the same identity, and Claude Code has
\* created an empty ~/.claude
SecondMachine ==
    /\ CanStart
    /\ pc = "done" /\ cmd.name = "push" /\ ~cmd.dry /\ result = ""
    /\ hasRemote /\ remote = head
    /\ origin = <<>>
    /\ origin' = fs
    /\ fs' = (KeyFile :> fs[KeyFile])
              @@ (Join(RepoDir, ".git/HEAD") :> fs[Join(RepoDir, ".git/HEAD")])
              @@ [q \in {Join(RepoDir, r) : r \in DOMAIN remote} |->
                     remote[RelPath(RepoDir, q)]]
    /\ dirs' = {SyncDir, BackupDir, RepoDir, ClaudeDir}
    /\ zips' = <<>>
    /\ pc' = "idle"
    /\ cmd' = NoCmd
    /\ result' = ""
    /\ pre' = fs'
    /\ preZips' = zips'
    /\ processed' = <<>>
    /\ vcsOps' = <<>>
    /\ behind' = FALSE
    /\ archived' = <<>>
    /\ report' = <<>>
    /\ pushed' = NeverPushed
    /\ UNCHANGED <<yaml, hasRemote, remote, head, now, seed, walk, nCmds, faulted>>

(***************************************************************************)
(* Initial states: the machine after `init`, with or without a remote that *)
(* already holds a sync from another machine, and with or without a local  *)
(* config directory.                                                       *)
(***************************************************************************)

\* the setups of the sync-state directory: after `init`, before any setup (no key file,
\* no repository), and after `import-key` alone (a key file, no repository)
Setups == {"init", "none", "key"}

\* the state runInit and the user's earlier sessions left behind
Machine(files, made, cloned, tree, y, setup, moved) ==
    /\ fs = (IF setup = "none" THEN <<>> ELSE (KeyFile :> KeyFileContent(IdentityK)))
            @@ (IF setup = "init"
                THEN LET local == IF moved THEN BaseTree ELSE tree
                     IN  (Join(RepoDir, ".git/HEAD") :> "ref: refs/heads/main\n")
                         @@ [q \in {Join(RepoDir, r) : r \in DOMAIN local} |->
                                local[RelPath(RepoDir, q)]]
                ELSE <<>>)
            @@ files
    /\ dirs = (IF setup = "init" THEN {SyncDir, BackupDir, RepoDir}
               ELSE IF setup = "key" THEN {SyncDir} ELSE {})
              \cup (IF made /\ DOMAIN files = {} THEN {ClaudeDir} ELSE {})
    /\ zips = <<>>
    /\ yaml = y
    /\ hasRemote = cloned
    /\ remote = IF cloned THEN tree ELSE <<>>
    /\ head = IF setup # "init" THEN <<>> ELSE IF moved THEN BaseTree ELSE tree
    /\ behind = moved
    /\ archived = <<>>
    /\ report = <<>>
    /\ pushed = NeverPushed
    /\ now = 1
    /\ seed = 0
    /\ pc = "idle"
    /\ cmd = NoCmd
    /\ walk = <<>>
    /\ result = ""
    /\ pre = fs
    /\ preZips = zips
    /\ processed = <<>>
    /\ vcsOps = <<>>
    /\ nCmds = 0
    /\ faulted = FALSE
    /\ origin = <<>>

Init ==
    \E populated \in BOOLEAN, made \in BOOLEAN, cloned \in BOOLEAN, tree \in Remotes,
       y \in {NoYaml, CustomYaml}, setup \in Setups, moved \in BOOLEAN :
        /\ (moved => /\ setup = "init" /\ cloned /\ populated
                     /\ tree = RemoteTree(IdentityK) /\ y = NoYaml)
        /\ (~cloned => tree = InitialTree)
        /\ (populated => made)
        /\ (made /\ ~populated => setup = "init" /\ cloned)
        /\ (setup = "none" => populated /\ ~cloned /\ y = NoYaml)
        /\ (setup = "key" => ~made /\ ~cloned /\ y = NoYaml)
        /\ (tree = RemoteTree(IdentityJ) => populated /\ y = NoYaml)
        /\ (~populated /\ setup = "init" => tree = RemoteTree(IdentityK) /\ y = NoYaml)
        /\ (cloned /\ tree = InitialTree => y = NoYaml)
        /\ Machine(IF populated THEN LocalFiles ELSE <<>>, made, cloned, tree, y, setup,
                   moved)

Next ==
    \/ \E dry \in BOOLEAN, ours \in BOOLEAN, theirs \in BOOLEAN, diff \in BOOLEAN :
          PullBegin(dry, ours, theirs, diff)
    \/ PullFile
    \/ PullFinish
    \/ \E dry \in BOOLEAN : PushBegin(dry)
    \/ PushFile
    \/ PushFinish
    \/ Verify
    \/ Tick
    \/ HandEdit
    \/ SecondMachine

Spec == Init /\ [][Next]_vars

\* sessions of the commands that set a machine up and take it down, with push, pull and
\* verify among them
KeyNext ==
    \/ \E url \in BOOLEAN : InitCmd(url)
    \/ \E answer \in Answers, keyContent \in Pasted : ImportKey(answer, keyContent)
    \/ \E answer \in Answers, keepKey \in BOOLEAN : Reset(answer, keepKey)
    \/ Unlink
    \/ Status
    \/ \E dry \in BOOLEAN, ours \in BOOLEAN, theirs \in BOOLEAN, diff \in BOOLEAN :
          PullBegin(dry, ours, theirs, diff)
    \/ PullFile
    \/ PullFinish
    \/ \E dry \in BOOLEAN : PushBegin(dry)
    \/ PushFile
    \/ PushFinish
    \/ Verify

KeySpec == Init /\ [][KeyNext]_vars

\* a machine set up by `init <url>` against the populated remote, whose config
\* directory is still empty and whose .claude-sync.yaml lets plugins through
FreshInit ==
    Machine(<<>>, TRUE, TRUE, RemoteTree(IdentityK), CustomYaml, "init", FALSE)

FreshSpec == FreshInit /\ [][Next]_vars

\* a machine set up by `init <url>` against an empty remote, with a file in its
\* config directory whose name ends in a space
SpacedFiles ==
    (Join(ClaudeDir, "CLAUDE.md") :> "mine")
    @@ (Join(ClaudeDir, "draft.md ") :> "draft")

SpacedInit == Machine(SpacedFiles, TRUE, TRUE, InitialTree, NoYaml, "init", FALSE)

SpacedSpec == SpacedInit /\ [][Next]_vars

\* a machine set up by `init <url>` against a remote to which a machine whose
\* config.yaml encrypts settings.json only pushed its <config dir>/claude.json
UnencryptedTree ==
    InitialTree
    @@ ("CLAUDE.md" :> "theirs")
    @@ ("claude.json" :> "inner2")

UnencryptedFiles ==
    (Join(ClaudeDir, "CLAUDE.md") :> "mine")
    @@ (ClaudeJSON :> "json")

UnencryptedInit ==
    Machine(UnencryptedFiles, TRUE, TRUE, UnencryptedTree, NoYaml, "init", FALSE)

UnencryptedSpec == UnencryptedInit /\ [][Next]_vars

(***************************************************************************)
(* The placeholder translation on its own: a payload is normalized against *)
(* a config directory and the result expanded against the same directory. *)
(***************************************************************************)

\* config directories: a Unix one and a Windows-style one
ConfigDirs == {"/h/.claude", "C:\\U\\.claude"}

\* the three ways a payload can spell a config directory: as it is, with
\* forward slashes, and with every backslash escaped as JSON requires
PathForms(claudeDir) ==
    {claudeDir, ReplaceAll(claudeDir, "\\", "/"), ReplaceAll(claudeDir, "\\", "\\\\")}

\* what precedes the embedded path in the payload
Leads == {"", "say \\\"hi\\\" ", "a\\\\b\n", "tab\\n "}

\* what follows it
Trails == {"/plugins", "\\\\plugins", "/p \\\"q\\\"", "/p\nc\\\\d", ""}

PayloadsOf(claudeDir) ==
    {lead \o form \o trail : lead \in Leads, form \in PathForms(claudeDir), trail \in Trails}

PathInit ==
    \E claudeDir \in ConfigDirs : \E data \in PayloadsOf(claudeDir) :
        /\ cmd = [name |-> "roundtrip", data |-> data, claudeDir |-> claudeDir]
        /\ pc = "payload"
        /\ result = ""
        /\ fs = <<>> /\ dirs = {} /\ zips = <<>> /\ yaml = NoYaml
        /\ hasRemote = FALSE /\ remote = <<>> /\ head = <<>>
        /\ behind = FALSE /\ archived = <<>> /\ report = <<>> /\ pushed = NeverPushed
        /\ now = 1 /\ seed = 0 /\ walk = <<>>
        /\ pre = <<>> /\ preZips = <<>> /\ processed = <<>> /\ vcsOps = <<>>
        /\ nCmds = 0 /\ faulted = FALSE /\ origin = <<>>

PathFrame ==
    UNCHANGED <<fs, dirs, zips, yaml, hasRemote, remote, head, now, seed, cmd, walk,
                pre, preZips, processed, vcsOps, nCmds, faulted, origin, behind,
                archived, report, pushed>>

\* push's half: NormalizePathsInJSON over the payload
NormalizePayload ==
    /\ pc = "payload"
    /\ result' = NormalizePathsInJSON(cmd.data, cmd.claudeDir)
    /\ pc' = "normalized"
    /\ PathFrame

\* pull's half: ExpandPathsInJSON over what push stored
ExpandPayload ==
    /\ pc = "normalized"
    /\ result' = ExpandPathsInJSON(result, cmd.claudeDir)
    /\ pc' = "expanded"
    /\ PathFrame

PathNext ==
    \/ NormalizePayload
    \/ ExpandPayload

PathSpec == PathInit /\ [][PathNext]_vars

(***************************************************************************)
(* The classifier on its own: a relative path is classified under a        *)
(* pattern set.                                                            *)
(***************************************************************************)

\* relative paths as a walk yields them
ClassifiedPaths ==
    {"settings.json", "sub/settings.json", "settings.json.bak", "Settings.json",
     "skills/pdf/resources/key.txt", "skills/pdf/resources/sub/key.txt",
     "skills/resources/key.txt", "client_secret_1.json", "x/client_secret_1.json",
     "CLAUDE.md", "plans/foo.md", "plans-archive/foo.md", "Plans/foo.md", "a/plans",
     "PLANS", "plans", "debug.log", "a/b.LOG", "notes/foo.md", "notes/a.local-backup-1"}

\* pattern sets: the defaults and three configured ones
PatternSets ==
    {Load(NoYaml), Load(CustomYaml),
     [EncryptPatterns |-> <<"*.md", "plans">>, ExcludePatterns |-> <<"Plans", "FOO.md">>,
      MaxCount |-> DefaultMaxCount],
     [EncryptPatterns |-> <<"notes/*", "a/plans">>,
      ExcludePatterns |-> <<"skills/pdf", "*.JSON">>, MaxCount |-> DefaultMaxCount]}

ClassInit ==
    \E relPath \in ClassifiedPaths, c \in PatternSets :
        /\ cmd = [name |-> "classify", relPath |-> relPath, cfg |-> c]
        /\ pc = "path"
        /\ result = ""
        /\ fs = <<>> /\ dirs = {} /\ zips = <<>> /\ yaml = NoYaml
        /\ hasRemote = FALSE /\ remote = <<>> /\ head = <<>>
        /\ behind = FALSE /\ archived = <<>> /\ report = <<>> /\ pushed = NeverPushed
        /\ now = 1 /\ seed = 0 /\ walk = <<>>
        /\ pre = <<>> /\ preZips = <<>> /\ processed = <<>> /\ vcsOps = <<>>
        /\ nCmds = 0 /\ faulted = FALSE /\ origin = <<>>

\* cfg.ShouldEncrypt(relPath)
ClassifyEncrypt ==
    /\ pc \in {"path", "encrypt?", "exclude?"}
    /\ result' = IF ShouldEncrypt(cmd.cfg, cmd.relPath) THEN "true" ELSE "false"
    /\ pc' = "encrypt?"
    /\ PathFrame

\* cfg.ShouldExclude(relPath)
ClassifyExclude ==
    /\ pc \in {"path", "encrypt?", "exclude?"}
    /\ result' = IF ShouldExclude(cmd.cfg, cmd.relPath) THEN "true" ELSE "false"
    /\ pc' = "exclude?"
    /\ PathFrame

ClassNext ==
    \/ ClassifyEncrypt
    \/ ClassifyExclude

ClassSpec == ClassInit /\ [][ClassNext]_vars

(***************************************************************************)
(* Git.Pull on its own: the git command is run, and run again on one kind  *)
(* of failure.                                                             *)
(***************************************************************************)

\* what git can write to stderr during `git pull`
GitStderr ==
    {"", "fatal: refusing to merge unrelated histories\n",
     "fatal: unable to access 'https://example.com/r.git/'\n",
     "CONFLICT (content): Merge conflict in CLAUDE.md\n",
     "fatal: Unrelated Histories\n"}

\* the ways one run of git can end: its exit status and its stderr
GitOutcomes == [ok : BOOLEAN, stderr : GitStderr]

PullArgs == "pull origin HEAD"
RetryArgs == "pull origin HEAD --allow-unrelated-histories"

\* Git.run: the error of one git command ("" for nil)
run(args, o) == IF o.ok THEN "" ELSE "git " \o args \o ": " \o o.stderr

\* a Git.Pull that retries after every failure
RetriesAfterAnyError(err) == err # ""

\* Git.Pull: whether the first error calls for the second attempt
Retries(err) == err # "" /\ Contains(err, "unrelated histories")

GitInit ==
    \E first \in GitOutcomes, second \in GitOutcomes :
        /\ cmd = [name |-> "git pull", first |-> first, second |-> second]
        /\ pc = "git_pull"
        /\ result = ""
        /\ vcsOps = <<>>
        /\ fs = <<>> /\ dirs = {} /\ zips = <<>> /\ yaml = NoYaml
        /\ hasRemote = TRUE /\ remote = <<>> /\ head = <<>>
        /\ behind = FALSE /\ archived = <<>> /\ report = <<>> /\ pushed = NeverPushed
        /\ now = 1 /\ seed = 0 /\ walk = <<>>
        /\ pre = <<>> /\ preZips = <<>> /\ processed = <<>>
        /\ nCmds = 0 /\ faulted = FALSE /\ origin = <<>>

GitFrame ==
    UNCHANGED <<fs, dirs, zips, yaml, hasRemote, remote, head, now, seed, cmd, walk,
                pre, preZips, processed, nCmds, faulted, origin, behind, archived,
                report, pushed>>

\* Git.Pull: the first attempt
FirstAttempt ==
    /\ pc = "git_pull"
    /\ vcsOps' = <<PullArgs>>
    /\ result' = run(PullArgs, cmd.first)
    /\ pc' = IF Retries(result') THEN "retry" ELSE "returned"
    /\ GitFrame

\* Git.Pull: the attempt with --allow-unrelated-histories, whose error is returned
SecondAttempt ==
    /\ pc = "retry"
    /\ vcsOps' = Append(vcsOps, RetryArgs)
    /\ result' = run(RetryArgs, cmd.second)
    /\ pc' = "returned"
    /\ GitFrame

GitNext ==
    \/ FirstAttempt
    \/ SecondAttempt

GitSpec == GitInit /\ [][GitNext]_vars

(***************************************************************************)
(* The platform check of runPull on its own, on any platform.              *)
(***************************************************************************)

\* the values of runtime.GOOS
Systems == {"linux", "darwin", "windows"}

\* base names with no tag, one tag, both tags in either order, and near misses
VariantBases ==
    {"deploy.md", "deploy.windows.md", "deploy.unix.md", "deploy.windows.unix.md",
     "deploy.unix.windows.md", "deploy.windows", ".unix.md", "deploy.Windows.md"}

\* the directories of the repository files, one of them with a tag in its name
VariantDirs == {"", "commands/", "old.windows.d/"}

\* the relative paths of the repository files, stored plain and encrypted
VariantPaths == {d \o b \o a : d \in VariantDirs, b \in VariantBases, a \in {"", ".age"}}

PlatformInit ==
    \E goos \in Systems, relPath \in VariantPaths :
        /\ cmd = [name |-> "pull", goos |-> goos, relPath |-> relPath]
        /\ pc = "file"
        /\ result = ""
        /\ fs = <<>> /\ dirs = {} /\ zips = <<>> /\ yaml = NoYaml
        /\ hasRemote = FALSE /\ remote = <<>> /\ head = <<>>
        /\ behind = FALSE /\ archived = <<>> /\ report = <<>> /\ pushed = NeverPushed
        /\ now = 1 /\ seed = 0 /\ walk = <<>>
        /\ pre = <<>> /\ preZips = <<>> /\ processed = <<>> /\ vcsOps = <<>>
        /\ nCmds = 0 /\ faulted = FALSE /\ origin = <<>>

\* runPull: the platform check of one repository file
PlatformCheck ==
    /\ pc = "file"
    /\ LET basePath == TrimSuffix(cmd.relPath, ".age")
       IN  result' = IF ShouldSkipOn(GetPlatformOn(cmd.goos), basePath) THEN "skipped"
                     ELSE "handled"
    /\ pc' = "checked"
    /\ PathFrame

PlatformNext == PlatformCheck

PlatformSpec == PlatformInit /\ [][PlatformNext]_vars

(***************************************************************************)
(* Properties.                                                             *)
(***************************************************************************)

\* the content pull writes for repository file `file`: its bytes, or their decryption
RemoteContent(file) ==
    IF HasSuffix(file, ".age") THEN Decrypt(cmd.identity, fs[file])[2] ELSE fs[file]

\* the sibling backups of dest on disk f
SiblingBackups(f, dest) == {q \in DOMAIN f : HasPrefix(q, dest \o ".local-backup-")}

\* the entries of the files the running command has handled
Entries == {processed[i] : i \in 1..Len(processed)}

\* path p is as it was when the running command started
Untouched(p) ==
    /\ (p \in DOMAIN fs) = (p \in DOMAIN pre)
    /\ p \in DOMAIN fs => fs[p] = pre[p]

\* the sibling backups of dest that the running command created: the new files named
\* as backups of dest, but for those it wrote as destinations of repository files
NewBackups(dest) ==
    (SiblingBackups(fs, dest) \ SiblingBackups(pre, dest)) \ {e.dest : e \in Entries}

InPull == cmd.name = "pull" /\ pc \in {"pull_files", "done"}
OursPull == InPull /\ ~cmd.dry /\ cmd.strategy = "ours"
TheirsPull == InPull /\ ~cmd.dry /\ cmd.strategy = "theirs"

TheirsDone == TheirsPull /\ pc = "done" /\ result = ""

\* C2: after a successful non-dry-run pull with strategy Theirs, every handled file
\* whose destination existed before the pull with content other than the remote content
\* has exactly one new sibling backup, which holds the destination's pre-pull content.
C2_BackupHoldsLocal ==
    TheirsDone =>
        \A e \in Entries :
            (e.dest \in DOMAIN pre /\ pre[e.dest] # RemoteContent(e.file)) =>
                /\ Cardinality(NewBackups(e.dest)) = 1
                /\ \A q \in NewBackups(e.dest) : fs[q] = pre[e.dest]

\* the files of the first machine that the round trip is to reproduce: those of its
\* ~/.claude that are neither excluded nor variants for another platform
Transferable ==
    {p \in Under(origin, ClaudeDir) :
        /\ ~Excluded(RelPath(ClaudeDir, p))
        /\ ~ShouldSkipForPlatform(RelPath(ClaudeDir, p))}

\* a default pull has succeeded on a second machine that started with an empty ~/.claude
RoundTripDone ==
    /\ TheirsDone
    /\ origin # <<>>
    /\ Under(pre, ClaudeDir) = {}
    /\ ClaudeJSON \notin DOMAIN pre

\* C4: after a successful push on one machine and a successful default pull on a
\* second machine with the same key, platform and patterns and an empty ~/.claude, every
\* file of the first machine that is neither excluded nor a variant for another
\* platform is on the second machine at the same path with the same bytes.
C4_RoundTrip ==
    RoundTripDone => \A p \in Transferable : p \in DOMAIN fs /\ fs[p] = origin[p]

\* C3: in a non-dry-run pull with strategy Theirs, a handled file whose destination
\* exists with the remote content (the bytes of a plain file, the decryption of an
\* encrypted one) gets no sibling backup.
C3_NoBackupWhenEqual ==
    TheirsPull =>
        \A e \in Entries :
            (e.existed /\ e.dest \in DOMAIN pre /\ e.had = RemoteContent(e.file)) =>
                NewBackups(e.dest) = {}

InPush == cmd.name = "push" /\ ~cmd.dry /\ pc \in {"push_files", "done"}

\* the handled local files that are to be encrypted: those shouldEncrypt accepts, and
\* the extra top-level config file
SecretEntries ==
    {e \in Entries : e.file = ClaudeJSON \/ Encrypted(RelPath(ClaudeDir, e.file))}

\* the repository files the running command created or changed
WrittenInRepo == {q \in Under(fs, RepoDir) : q \notin DOMAIN pre \/ fs[q] # pre[q]}

\* C5 as stated: during and after a non-dry-run push, every handled local file that
\* is to be encrypted has ciphertext at <relPath>.age (claude.json.age for the extra
\* file), and no repository file the push wrote holds the plaintext of such a file.
C5_AsStated ==
    InPush =>
        /\ \A e \in SecretEntries :
              /\ HasSuffix(e.dest, ".age")
              /\ HasPrefix(fs[e.dest], AgeHeader)
        /\ \A q \in WrittenInRepo : \A e \in SecretEntries : fs[q] # fs[e.file]

\* the local files of ~/.claude that shouldExclude accepts
ExcludedLocal == {p \in Under(pre, ClaudeDir) : Excluded(RelPath(ClaudeDir, p))}

\* the repository files whose logical path shouldExclude accepts
ExcludedRemote ==
    {q \in Under(fs, RepoDir) : Excluded(TrimSuffix(RelPath(RepoDir, q), ".age"))}

\* C6: exclusion wins. During and after a non-dry-run push, a local file whose relative
\* path shouldExclude accepts is not handled and the repository paths it would go to,
\* plain and with the encrypted suffix, are as before, also when the path matches an
\* encrypt pattern; during and after a non-dry-run pull, a repository file whose logical
\* path shouldExclude accepts is not handled and its destination is as before.
C6_ExclusionWins ==
    /\ InPush =>
          \A p \in ExcludedLocal :
              /\ \A e \in Entries : e.file # p
              /\ Untouched(Join(RepoDir, RelPath(ClaudeDir, p)))
              /\ Untouched(Join(RepoDir, RelPath(ClaudeDir, p)) \o ".age")
    /\ (InPull /\ ~cmd.dry) =>
          \A q \in ExcludedRemote :
              /\ \A e \in Entries : e.file # q
              /\ Untouched(PullDest(RelPath(RepoDir, q)))
              /\ NewBackups(PullDest(RelPath(RepoDir, q))) = {}

\* a Theirs pull has succeeded after a push of the same session: the repository holds
\* an excluded encrypted file the pull passed over, and the local file at the same
\* excluded path, which matches an encrypt pattern, was not pushed over it
C6_Witness ==
    /\ TheirsDone /\ nCmds = 2 /\ seed > 0 /\ origin = <<>>
    /\ \E q \in ExcludedRemote :
          /\ HasSuffix(q, ".age")
          /\ PullDest(RelPath(RepoDir, q)) \in DOMAIN fs
          /\ ShouldEncrypt(cfg, RelPath(ClaudeDir, PullDest(RelPath(RepoDir, q))))
          /\ Decrypt(cmd.identity, fs[q])[2] # fs[PullDest(RelPath(RepoDir, q))]

\* the paths outside the repository working copy and the sync-state directory: the
\* local config directory, the extra top-level config file, and their siblings
LocalPaths == {p \in (DOMAIN fs) \cup (DOMAIN pre) : ~HasPrefix(p, SyncDir \o Separator)}

\* the archives in the backup directory that hold the disk as it was when the
\* running command started
PrePullArchives ==
    {a \in DOMAIN zips :
        /\ HasPrefix(a, Join(BackupDir, "backup-")) /\ HasSuffix(a, ".zip")
        /\ zips[a] = ArchiveEntries(pre)}

\* C7: in a non-dry-run pull over a local config directory that held files, whenever
\* a file outside the repository has been written, an archive in the backup directory
\* holds the pre-pull content of the config directory and of the extra config file.
C7_ArchiveBeforeWrite ==
    (InPull /\ ~cmd.dry /\ Under(pre, ClaudeDir) # {}) =>
        ((\E p \in LocalPaths : ~Untouched(p)) => PrePullArchives # {})

\* the steps of a dry run
DryStep == cmd'.dry /\ cmd'.name \in {"pull", "push"}

\* C8: no step of a dry-run pull or a dry-run push, refused ones included, changes a
\* file, a directory or an archive, moves the repository's head or the remote, or
\* invokes a VCS operation.
C8_DryRunChangesNothing ==
    [][DryStep =>
          /\ fs' = fs /\ dirs' = dirs /\ zips' = zips
          /\ head' = head /\ remote' = remote
          /\ vcsOps' = <<>>]_vars

\* a dry-run pull has run to its end after another command, with a remote configured
\* and over a populated config directory: it listed a file it would create and a plain
\* file it would overwrite
C8_Witness ==
    /\ cmd.dry /\ cmd.name = "pull" /\ pc = "done" /\ result = "" /\ nCmds = 2
    /\ hasRemote /\ Under(fs, ClaudeDir) # {}
    /\ \E e \in Entries : e.dest \notin DOMAIN fs
    /\ \E e \in Entries :
          e.dest \in DOMAIN fs /\ ~HasSuffix(e.file, ".age") /\ fs[e.dest] # fs[e.file]

DiffPull == InPull /\ ~cmd.dry /\ cmd.strategy = "diff"

\* C9: during and after a non-dry-run pull with strategy DiffOnly, every file of the
\* local config directory and the extra config file is as before and no file has
\* appeared beside them: nothing is written, backed up or deleted, and the payloads
\* that hold the placeholder are not expanded.
C9_DiffMutatesNothing ==
    DiffPull => \A p \in LocalPaths : Untouched(p)

\* a DiffOnly pull has run to its end: it reported a new plain file, a changed plain
\* file and encrypted files with and without a local file, and the local config
\* directory holds a payload with the placeholder
C9_Witness ==
    /\ DiffPull /\ pc = "done" /\ result = ""
    /\ \E e \in Entries : ~e.existed /\ ~HasSuffix(e.file, ".age")
    /\ \E e \in Entries : e.existed /\ ~HasSuffix(e.file, ".age") /\ e.had # fs[e.file]
    /\ \E e \in Entries : e.existed /\ HasSuffix(e.file, ".age")
    /\ \E q \in Under(fs, Join(ClaudeDir, "plugins")) :
          expandPluginPaths(fs, ClaudeDir)[q] # fs[q]

\* the steps that change nothing on disk, in the VCS or in the backup directory
NoSideEffect ==
    /\ fs' = fs /\ dirs' = dirs /\ zips' = zips
    /\ head' = head /\ remote' = remote
    /\ vcsOps' = <<>>

\* the step that starts a command
Starts == nCmds' = nCmds + 1

\* the number of the modes Ours, DiffOnly and dry-run that command c asks for
Modes(c) == (IF c.ours THEN 1 ELSE 0) + (IF c.diff THEN 1 ELSE 0) + (IF c.dry THEN 1 ELSE 0)

\* the number of the flags --ours, --theirs and --diff that command c was given
Strategies(c) ==
    (IF c.ours THEN 1 ELSE 0) + (IF c.theirs THEN 1 ELSE 0) + (IF c.diff THEN 1 ELSE 0)

\* C10 as stated: a pull that asks for more than one of Ours, DiffOnly and dry-run
\* returns the invalid-arguments error at once, without side effect.
C10_AsStated ==
    [][(Starts /\ cmd'.name = "pull" /\ Modes(cmd') > 1) =>
          (pc' = "done" /\ result' = MutuallyExclusive /\ NoSideEffect)]_vars

\* C10: a pull that is given more than one of --ours, --theirs and --diff returns the
\* invalid-arguments error at once, without side effect; a pull that is given
\* --dry-run with at most one of them is not refused for its flags.
C10_ExclusiveStrategies ==
    [][(Starts /\ cmd'.name = "pull") =>
          IF Strategies(cmd') > 1
          THEN pc' = "done" /\ result' = MutuallyExclusive /\ NoSideEffect
          ELSE result' # MutuallyExclusive]_vars

\* a pull with --ours and --diff has been refused on a machine with a key, a
\* repository with a remote and a populated config directory that differs from it
C10_Witness ==
    /\ cmd.name = "pull" /\ cmd.ours /\ cmd.diff /\ ~cmd.dry
    /\ pc = "done" /\ result = MutuallyExclusive
    /\ KeyFile \in DOMAIN fs /\ hasRemote
    /\ Join(ClaudeDir, "CLAUDE.md") \in DOMAIN fs
    /\ Join(RepoDir, "CLAUDE.md") \in DOMAIN fs
    /\ fs[Join(ClaudeDir, "CLAUDE.md")] # fs[Join(RepoDir, "CLAUDE.md")]

\* the local files a non-dry-run push has to transfer: the files of the config directory
\* that are not excluded, and the extra config file
ToTransfer ==
    {p \in Under(pre, ClaudeDir) : ~Excluded(RelPath(ClaudeDir, p))}
    \cup (IF ClaudeJSON \in DOMAIN pre THEN {ClaudeJSON} ELSE {})

\* the manifest on disk is the one GenerateManifest gives for the working copy as it is
ManifestCurrent ==
    /\ ManifestPath \in DOMAIN fs
    /\ \E t \in 1..MaxClock :
          fs[ManifestPath] = ManifestText(GenerateManifest(fs, RepoDir), t)

PushOrder == <<"addAll", "commit", "push">>

\* C11: a non-dry-run push keeps the order transfers, normalize, manifest, stage,
\* commit, VCS push.  While files are transferred the manifest is as before and no VCS
\* operation has been invoked, and each file is transferred once; once the push has
\* staged, every file to transfer has been transferred, no plugin payload of the working
\* copy is left to normalize, the manifest describes the working copy as it is (nothing
\* was written after it), the VCS operations invoked are a prefix of stage, commit,
\* push, a commit holds the working copy, and a delivered push leaves the remote at it.
C11_PushOrder ==
    InPush =>
        /\ \A i, j \in 1..Len(processed) : processed[i].file = processed[j].file => i = j
        /\ pc = "push_files" => vcsOps = <<>> /\ Untouched(ManifestPath)
        /\ vcsOps \in {SubSeq(PushOrder, 1, n) : n \in 0..3}
        /\ vcsOps # <<>> =>
              /\ {e.file : e \in Entries} = ToTransfer
              /\ normalizePluginPaths(fs, RepoDir, ClaudeDir) = fs
              /\ ManifestCurrent
        /\ (Len(vcsOps) >= 2 /\ result # "git commit failed") => head = WorkTree(fs)
        /\ (Len(vcsOps) = 3 /\ result = "") => remote = head

\* a push has run to its end and delivered: it transferred plain and encrypted files and
\* the extra config file, and normalized a plugin payload that held the local path
C11_Witness ==
    /\ InPush /\ pc = "done" /\ result = "" /\ vcsOps = PushOrder
    /\ \E e \in SecretEntries : e.file = ClaudeJSON
    /\ \E e \in Entries \ SecretEntries : fs[e.dest] = fs[e.file]
    /\ \E e \in Entries :
          /\ HasPrefix(e.dest, Join(RepoDir, "plugins") \o Separator)
          /\ fs[e.dest] # fs[e.file]
          /\ fs[e.dest] = NormalizePathsInJSON(fs[e.file], ClaudeDir)

\* whether the sequence of VCS operations ops holds op
Invoked(ops, op) == \E i \in 1..Len(ops) : ops[i] = op

\* the step in which a non-dry-run push stages the working copy
Stages == pc = "push_files" /\ pc' = "done" /\ ~cmd.dry /\ Invoked(vcsOps', "addAll")

\* C12: in the step of a non-dry-run push that stages, commit is invoked exactly when
\* the staged working copy differs from HEAD; VCS push is invoked exactly when that
\* commit was made and a remote exists; when nothing changed the push succeeds with
\* HEAD and the remote as they were; when a commit was made and no remote exists the
\* push succeeds with the commit in HEAD only.
C12_CommitAndPush ==
    [][Stages =>
          LET staged == WorkTree(fs')
              changes == staged # head
              committed == changes /\ result' # "git commit failed"
          IN  /\ Invoked(vcsOps', "commit") <=> changes
              /\ committed => head' = staged
              /\ Invoked(vcsOps', "push") <=> (committed /\ hasRemote)
              /\ ~changes => (result' = "" /\ head' = head /\ remote' = remote)
              /\ (committed /\ ~hasRemote) => (result' = "" /\ remote' = remote)]_vars

\* a push has succeeded without a commit: it staged a working copy equal to HEAD
C12_Witness ==
    /\ InPush /\ pc = "done" /\ result = "" /\ vcsOps = <<"addAll">>
    /\ WorkTree(fs) = head
    /\ ManifestCurrent

\* the errors with which runPush refuses to start
PushRefusals == {"not initialized", "no ~/.claude directory found", "failed to get public key"}

\* the local files of the config directory in the order runPush visits them
PushWalk ==
    SelectSeq(WalkFiles(pre, ClaudeDir), LAMBDA q : ~Excluded(RelPath(ClaudeDir, q)))

\* a non-dry-run push has ended without having transferred every file
PushIncomplete ==
    /\ InPush /\ pc = "done" /\ result \notin PushRefusals
    /\ {e.file : e \in Entries} # ToTransfer

RerunDone == InPush /\ pc = "done" /\ result = "" /\ faulted

\* C14: when a push has succeeded as the re-run of a push that failed, every local file
\* to transfer has a destination in the working copy that carries the content of a
\* local file with that destination, the manifest describes the working copy, HEAD
\* holds the working copy, and the remote, when there is one, holds HEAD.
C14_RerunCompletes ==
    RerunDone =>
        /\ \A e \in Entries :
              /\ e.dest \in DOMAIN fs
              /\ \E x \in Entries :
                    /\ x.dest = e.dest
                    /\ \/ fs[e.dest] = fs[x.file]
                       \/ fs[e.dest] = NormalizePathsInJSON(fs[x.file], ClaudeDir)
                       \/ Decrypt(cmd.identity, fs[e.dest]) = <<TRUE, fs[x.file]>>
        /\ {e.file : e \in Entries} = ToTransfer
        /\ ManifestCurrent
        /\ head = WorkTree(fs)
        /\ hasRemote => remote = head

\* the errors with which runPull refuses to start
PullRefusals == {MutuallyExclusive, "not initialized", "no repo found", "failed to load key"}

\* the repository files in the order runPull visits them
PullWalk ==
    SelectSeq(WalkFiles(fs, RepoDir), LAMBDA q : ~PullSkipped(RelPath(RepoDir, q)))

\* a pull that applies files has ended without having handled every file
PullIncomplete ==
    /\ InPull /\ ~cmd.dry /\ cmd.strategy # "diff"
    /\ pc = "done" /\ result \notin PullRefusals
    /\ Len(processed) < Len(PullWalk)

\* C15: when a pull that applies files has ended without having handled every file of
\* the walk, the files it handled are the ones before the failing file, the error it
\* returned names the failing file's relative path (without the encrypted suffix), and
\* every local path is as before but for the destinations of the handled files and the
\* sibling backups of those and of the failing file's destination: no later file has
\* been written and no payload has been expanded.
C15_DecryptFailureAborts ==
    PullIncomplete =>
        LET n == Len(processed)
            failing == PullWalk[n + 1]
            rel == RelPath(RepoDir, failing)
            written == {e.dest : e \in Entries}
        IN  /\ [i \in 1..n |-> processed[i].file] = SubSeq(PullWalk, 1, n)
            /\ result = (IF HasSuffix(rel, ".age")
                         THEN "failed to decrypt " \o TrimSuffix(rel, ".age")
                         ELSE "failed to copy " \o rel)
            /\ \A p \in LocalPaths :
                  \/ Untouched(p)
                  \/ p \in written
                  \/ \E d \in written \cup {PullDest(rel)} : p \in SiblingBackups(fs, d)

\* a Theirs pull has failed at an encrypted file this machine's key does not open, after
\* it wrote a destination, with a plain file still to visit whose destination differs
\* from it, and with a local payload to expand
C15_Witness ==
    /\ PullIncomplete /\ cmd.strategy = "theirs" /\ ~faulted
    /\ HasPrefix(result, "failed to decrypt ")
    /\ \E e \in Entries : ~Untouched(e.dest)
    /\ Len(processed) + 1 < Len(PullWalk)
    /\ LET next == PullWalk[Len(processed) + 2]
           dest == PullDest(RelPath(RepoDir, next))
       IN  dest \in DOMAIN fs /\ fs[dest] # fs[next] /\ Untouched(dest)
    /\ expandPluginPaths(fs, ClaudeDir) # fs

\* a pull that applies files has invoked the VCS pull, and the VCS pull failed: origin's
\* branch still holds commits the local HEAD does not
PullFailed == InPull /\ ~cmd.dry /\ Invoked(vcsOps, "pull") /\ behind

\* C16: when the VCS pull of a non-dry-run pull has failed, the repository working copy
\* stays as it was cached, the archive of a config directory that held files is made
\* when nothing else fails, every file the pull handles is a file of the cached working
\* copy, and the pull ends either with success (after handling every file of the walk,
\* when it applies files) or with the error of a file it could not decrypt or copy.
C16_PullFailureNotFatal ==
    PullFailed =>
        /\ \A p \in Under(pre, RepoDir) \cup Under(fs, RepoDir) : Untouched(p)
        /\ (GitPullOk(pre, "ok") /\ Under(pre, ClaudeDir) # {}) => PrePullArchives # {}
        /\ \A e \in Entries : e.file \in DOMAIN pre
        /\ pc = "done" =>
              \/ /\ result = ""
                 /\ cmd.strategy # "diff" =>
                       [i \in 1..Len(processed) |-> processed[i].file] = PullWalk
              \/ HasPrefix(result, "failed to decrypt ")
              \/ HasPrefix(result, "failed to copy ")

\* a Theirs pull whose VCS pull failed for the network has archived the config directory,
\* has written a destination with the content of the cached working copy's file, which
\* is not the content origin's branch holds for it, and has ended with success
C16_Witness ==
    /\ PullFailed /\ cmd.strategy = "theirs" /\ pc = "done" /\ result = ""
    /\ GitPullOk(pre, "ok") /\ faulted
    /\ PrePullArchives # {}
    /\ \E e \in Entries :
          /\ ~Untouched(e.dest)
          /\ fs[e.dest] = pre[e.file]
          /\ RelPath(RepoDir, e.file) \in DOMAIN remote
          /\ remote[RelPath(RepoDir, e.file)] # pre[e.file]

\* the last k elements of sequence s, as a set
LastOf(s, k) == {s[i] : i \in (IF Len(s) > k THEN Len(s) - k + 1 ELSE 1)..Len(s)}

InVerify == cmd.name = "verify" /\ pc \in {"done", "verified"} /\ FileExists(ManifestPath)

\* the file of a manifest entry is in the working copy with the recorded digest
Intact(entry) ==
    /\ Join(RepoDir, entry.Path) \in DOMAIN fs
    /\ Checksum(fs[Join(RepoDir, entry.Path)]) = entry.Checksum

\* the entries for which verify logged verdict v
Logged(v) == {i \in 1..Len(report) : report[i].verdict = v}

\* C18: verify over a manifest returns success exactly when the file of every entry of
\* the manifest is in the working copy with the recorded digest; otherwise its error
\* carries the number of entries for which that is not so, each once: it logs
\* one line per entry, Missing for exactly the entries whose path does not exist and
\* a mismatch for exactly those whose file holds another digest.  Files without an
\* entry do not count.
C18_VerifyCounts ==
    InVerify =>
        LET entries == ReadManifest(fs[ManifestPath])
            all == 1..Len(entries)
            bad == {i \in all : ~Intact(entries[i])}
        IN  /\ (result = "") <=> (bad = {})
            /\ bad # {} =>
                  result = ToString(Cardinality(bad)) \o " file(s) failed verification"
            /\ Len(report) = Len(entries)
            /\ \A i \in all : report[i].Path = entries[i].Path
            /\ Logged("Missing") = {i \in all : ~FileExists(Join(RepoDir, entries[i].Path))}
            /\ Logged("Checksum mismatch") =
                  {i \in all : /\ Join(RepoDir, entries[i].Path) \in DOMAIN fs
                               /\ ~Intact(entries[i])}

\* verify has run after one file with an entry was changed and a file without an entry
\* was added: one mismatch, nothing missing, the error counts one
C18_Witness ==
    /\ InVerify /\ pc = "verified"
    /\ Cardinality(Logged("Checksum mismatch")) = 1
    /\ Logged("Missing") = {}
    /\ Cardinality(Logged("OK")) > 1
    /\ result = "1 file(s) failed verification"
    /\ Join(RepoDir, "notes.txt") \in DOMAIN fs
    /\ \A i \in 1..Len(report) : report[i].Path # "notes.txt"

\* a non-dry-run push has written its manifest and gone on to stage
ManifestWritten == InPush /\ vcsOps # <<>>

\* the manifest on disk holds one entry for each of the repository-relative paths in
\* rels, with the digest of the file as it is, and no other entry
ListsExactly(rels) ==
    LET entries == ReadManifest(fs[ManifestPath])
    IN  /\ {entries[i].Path : i \in 1..Len(entries)} = rels
        /\ Len(entries) = Cardinality(rels)
        /\ \A i \in 1..Len(entries) :
              entries[i].Checksum = Checksum(fs[Join(RepoDir, entries[i].Path)])

\* the files of the working copy, relative to it, but for those whose path starts with
\* ".git" and the manifest
Listable ==
    {r \in {RelPath(RepoDir, q) : q \in Under(fs, RepoDir)} :
        ~HasPrefix(r, ".git") /\ r # ".sync-manifest"}

\* C19 as stated: the manifest a push wrote lists exactly the files of the working copy
\* that are neither VCS metadata, nor the manifest, nor excluded by the pattern set.
C19_AsStated ==
    ManifestWritten =>
        ListsExactly({r \in Listable : ~Excluded(r) /\ ~Excluded(TrimSuffix(r, ".age"))})

\* C19: the manifest a push wrote lists exactly the files of the working copy whose
\* relative path does not start with ".git" and is not the manifest, each once with its
\* current digest, whether or not the pattern set excludes them.
C19_ManifestLists ==
    ManifestWritten => ListsExactly(Listable)

\* a push has replaced a manifest that listed other digests, and the new manifest lists a
\* file that the pattern set excludes and a file the push encrypted
C19_Witness ==
    /\ ManifestWritten /\ pc = "done" /\ result = ""
    /\ ManifestPath \in DOMAIN pre
    /\ ReadManifest(pre[ManifestPath]) # ReadManifest(fs[ManifestPath])
    /\ \E r \in Listable : Excluded(TrimSuffix(r, ".age"))
    /\ \E e \in SecretEntries : RelPath(RepoDir, e.dest) \in Listable

\* C20: a push started without the key file or without the local config directory, and
\* a pull started without the key file or without the repository working copy, ends in
\* that step with an error (the one of the first prerequisite that is missing; for a pull
\* given several strategy flags, the one of the flags) and changes nothing on disk, in
\* the backup directory or in the VCS.
C20_PrerequisitesFirst ==
    [][/\ (Starts /\ cmd'.name = "push"
            /\ (~FileExists(KeyFile) \/ ~FileExists(ClaudeDir))) =>
              /\ pc' = "done" /\ NoSideEffect
              /\ result' = IF ~FileExists(KeyFile) THEN "not initialized"
                            ELSE "no ~/.claude directory found"
       /\ (Starts /\ cmd'.name = "pull"
            /\ (~FileExists(KeyFile) \/ ~FileExists(RepoDir))) =>
              /\ pc' = "done" /\ NoSideEffect
              /\ result' = IF Strategies(cmd') > 1 THEN MutuallyExclusive
                            ELSE IF ~FileExists(KeyFile) THEN "not initialized"
                            ELSE "no repo found"]_vars

\* a non-dry-run pull has been refused for the missing repository on a machine that
\* holds a key and no config directory
C20_Witness ==
    /\ cmd.name = "pull" /\ ~cmd.dry /\ pc = "done" /\ result = "no repo found"
    /\ FileExists(KeyFile) /\ ~FileExists(RepoDir) /\ ~FileExists(ClaudeDir)
    /\ fs = pre

\* C21: no step of a push, dry run or not, creates, changes or removes a file of the
\* local config directory or the extra top-level config file; no step of a pull after
\* its first creates, changes or removes a file of the repository working copy, and
\* the first step of a pull changes the working copy only by the checkout of the VCS
\* pull it invoked.
C21_ReadOnlySides ==
    [][/\ (cmd'.name = "push" /\ pc' \in {"push_files", "done"}
            /\ (Starts \/ pc = "push_files")) =>
              LocalSide(fs') = LocalSide(fs)
       /\ (cmd'.name = "pull" /\ pc = "pull_files") =>
              Part(fs', RepoDir) = Part(fs, RepoDir)
       /\ (Starts /\ cmd'.name = "pull") =>
              \/ Part(fs', RepoDir) = Part(fs, RepoDir)
              \/ Invoked(vcsOps', "pull") /\ fs' = Checkout(fs, head, remote)]_vars

\* a Theirs pull has ended after its VCS pull changed the working copy and after it
\* wrote decrypted and copied files to the local side
C21_Witness ==
    /\ InPull /\ ~cmd.dry /\ cmd.strategy = "theirs" /\ pc = "done" /\ result = ""
    /\ Invoked(vcsOps, "pull")
    /\ Part(fs, RepoDir) # Part(pre, RepoDir)
    /\ \E e \in Entries : HasSuffix(e.file, ".age") /\ ~Untouched(e.dest)
    /\ \E e \in Entries : ~HasSuffix(e.file, ".age") /\ ~Untouched(e.dest)

\* C22: in every step from a state in which the key file exists, its content changes
\* only when the step is an import-key whose overwrite prompt was answered y or yes (in
\* any case) and whose pasted content holds a key, and it then becomes the pasted
\* content; it is removed only when the step is a reset answered yes without
\* --keep-key; and after the step no file of the repository working copy holds a
\* secret key.
C22_KeyFileGuarded ==
    [][(KeyFile \in DOMAIN fs) =>
         (/\ (KeyFile \in DOMAIN fs' /\ fs'[KeyFile] # fs[KeyFile]) =>
                /\ Starts /\ cmd'.name = "import-key"
                /\ cmd'.answer \in {"Y", "y", "yes"}
                /\ ParseKey(cmd'.pasted) # ""
                /\ fs'[KeyFile] = cmd'.pasted \o "\n"
          /\ KeyFile \notin DOMAIN fs' =>
                /\ Starts /\ cmd'.name = "reset"
                /\ cmd'.answer = "yes" /\ ~cmd'.keepKey
          /\ \A p \in Under(fs', RepoDir) : ~Contains(fs'[p], SecretKeyPrefix))]_vars

\* a confirmed import-key has replaced the key of a machine that holds a repository
\* with files pushed under the old key
C22_Witness ==
    /\ cmd.name = "import-key" /\ pc = "done" /\ result = ""
    /\ KeyFile \in DOMAIN pre /\ ParseKey(pre[KeyFile]) = IdentityK
    /\ ParseKey(fs[KeyFile]) = IdentityJ
    /\ \E p \in Under(fs, RepoDir) : HasSuffix(p, ".age")

(***************************************************************************)
(* C23                                                                     *)
(***************************************************************************)

\* the text a JSON parser reads from the inside of a string literal: the
\* escapes \\, \", \/ and \n stand for one character each, any other
\* backslash makes the literal unreadable
RECURSIVE Unescape(_)
Unescape(s) ==
    IF s = "" THEN ""
    ELSE IF SubSeq(s, 1, 1) # "\\" THEN SubSeq(s, 1, 1) \o Unescape(SubSeq(s, 2, Len(s)))
    ELSE IF Len(s) < 2 THEN "<unreadable>"
    ELSE LET e == SubSeq(s, 2, 2)
             rest == Unescape(SubSeq(s, 3, Len(s)))
         IN  IF e \in {"\\", "\"", "/"} THEN e \o rest
             ELSE IF e = "n" THEN "\n" \o rest
             ELSE "<unreadable>"

Readable(s) == ~Contains(Unescape(s), "<unreadable>")

\* C23: for every payload and every config directory, expanding the
\* normalized payload against the same directory gives a payload whose string
\* values read the same as the original's, whichever of the three forms the
\* embedded path was written in.
C23_RoundTrip ==
    (pc = "expanded" /\ Readable(cmd.data)) => Unescape(result) = Unescape(cmd.data)

\* the part of C23 that does hold: a payload without an escape outside
\* the embedded path reads the same after the round trip
C23_PathAlone ==
    (/\ pc = "expanded" /\ Readable(cmd.data)
     /\ \E form \in PathForms(cmd.claudeDir) :
            cmd.data \in {form, form \o "/plugins"})
        => Unescape(result) = Unescape(cmd.data)

(***************************************************************************)
(* C24                                                                     *)
(***************************************************************************)

IsWildcard(pattern) == Contains(pattern, "*")

\* the relative paths C24 says are encrypted
EncryptByRule(c, relPath) ==
    \E i \in 1..Len(c.EncryptPatterns) :
        LET p == c.EncryptPatterns[i]
        IN  \/ ~IsWildcard(p) /\ Base(relPath) = p
            \/ IsWildcard(p) /\ matchWildcard(Base(relPath), p)
            \/ IsWildcard(p) /\ matchWildcard(relPath, p)

\* the relative paths C24 says are excluded; a wildcard pattern is tried on
\* the base name
ExcludeByRule(c, relPath) ==
    \E i \in 1..Len(c.ExcludePatterns) :
        LET p == ToLower(c.ExcludePatterns[i])
            r == ToLower(relPath)
        IN  \/ ~IsWildcard(p) /\ r = p
            \/ ~IsWildcard(p) /\ HasPrefix(r, p \o "/")
            \/ ~IsWildcard(p) /\ Base(r) = p
            \/ IsWildcard(p) /\ matchWildcard(Base(r), p)

\* C24: the verdicts are functions of the relative path and the pattern set:
\* shouldEncrypt answers true exactly when the base name equals a non-wildcard
\* encrypt pattern or a wildcard encrypt pattern matches the base name or the
\* whole forward-slash path; shouldExclude answers true exactly when, without
\* regard to case, the path equals a non-wildcard pattern, starts with it
\* followed by '/', or has it as base name.  Under the defaults settings.json
\* and skills/pdf/resources/key.txt are encrypted and CLAUDE.md is not,
\* plans/foo.md is excluded and plans-archive/foo.md is not.
C24_Classification ==
    /\ pc = "encrypt?" =>
          /\ result = "true" <=> EncryptByRule(cmd.cfg, cmd.relPath)
          /\ cmd.cfg = Load(NoYaml) =>
                /\ cmd.relPath \in {"settings.json", "skills/pdf/resources/key.txt"}
                      => result = "true"
                /\ cmd.relPath = "CLAUDE.md" => result = "false"
    /\ pc = "exclude?" =>
          /\ result = "true" <=> ExcludeByRule(cmd.cfg, cmd.relPath)
          /\ cmd.cfg = Load(NoYaml) =>
                /\ cmd.relPath = "plans/foo.md" => result = "true"
                /\ cmd.relPath = "plans-archive/foo.md" => result = "false"

C24_Witness ==
    /\ pc = "encrypt?" /\ result = "true"
    /\ cmd.cfg = Load(NoYaml)
    /\ cmd.relPath = "skills/pdf/resources/key.txt"

(***************************************************************************)
(* C25                                                                     *)
(***************************************************************************)

\* a non-dry-run pull with a strategy other than diff has returned without error
PullComplete ==
    /\ InPull /\ ~cmd.dry /\ cmd.strategy # "diff"
    /\ pc = "done" /\ result = ""

\* the payloads under ~/.claude/plugins that the running pull wrote
WrittenPayloads ==
    {e.dest : e \in {x \in Entries :
                        /\ HasPrefix(x.dest, Join(ClaudeDir, "plugins") \o Separator)
                        /\ HasSuffix(x.dest, ".json")
                        /\ x.dest \in DOMAIN fs
                        /\ ~Untouched(x.dest)}}

\* C25: a non-dry-run pull with strategy Theirs or Ours that completes its
\* per-file step expands the placeholder in the payloads under plugins before
\* it returns: no payload it wrote there still holds the placeholder.
C25_AsStated ==
    PullComplete => \A p \in WrittenPayloads : ~Contains(fs[p], ClaudeDirPlaceholder)

\* what holds of the pulls with strategy Theirs
C25_TheirsExpands ==
    (PullComplete /\ cmd.strategy = "theirs") =>
        \A p \in Under(fs, Join(ClaudeDir, "plugins")) :
            HasSuffix(p, ".json") => ~Contains(fs[p], ClaudeDirPlaceholder)

(***************************************************************************)
(* C26                                                                     *)
(***************************************************************************)

\* the paths of the working copy the running push writes from a local file
PushDestinations ==
    {PushDest(RelPath(ClaudeDir, p)) :
        p \in {x \in Under(pre, ClaudeDir) : ~Excluded(RelPath(ClaudeDir, x))}}
    \cup (IF ClaudeJSON \in DOMAIN pre THEN {Join(RepoDir, "claude.json.age")} ELSE {})

\* the files the working copy held when the push started that no local file of
\* this push maps to: pushed earlier, and since deleted or excluded locally
LeftBehind ==
    {q \in Under(pre, RepoDir) : ~HasPrefix(RelPath(RepoDir, q), ".git") /\ q # ManifestPath}
    \ PushDestinations

RECURSIVE EntrySet(_)
EntrySet(entries) ==
    IF Len(entries) = 0 THEN {} ELSE {Head(entries)} \cup EntrySet(Tail(entries))

\* the entries the manifest on disk would hold for the files in qs as they are
EntriesFor(qs) == {[Checksum |-> Checksum(fs[q]), Path |-> RelPath(RepoDir, q)] : q \in qs}

\* C26: a push removes no file from the repository working copy; a file that
\* was pushed earlier and has no local source any more stays there with its
\* content, and the manifest the push regenerates lists it again.
C26_PushRemovesNothing ==
    InPush =>
        /\ Under(pre, RepoDir) \subseteq DOMAIN fs
        /\ \A q \in LeftBehind : fs[q] = pre[q]
        /\ ManifestWritten =>
              EntriesFor(LeftBehind) \subseteq EntrySet(ReadManifest(fs[ManifestPath]))

\* the second machine, whose config directory is empty, has pushed: the files
\* the first machine pushed are still in the working copy and in the manifest
C26_Witness ==
    /\ ManifestWritten /\ pc = "done"
    /\ origin # <<>>
    /\ \E q \in LeftBehind :
          /\ q \in DOMAIN origin /\ origin[q] = fs[q]
          /\ Join(ClaudeDir, RelPath(RepoDir, q)) \in DOMAIN origin
          /\ Join(ClaudeDir, RelPath(RepoDir, q)) \notin DOMAIN pre
          /\ EntriesFor({q}) \subseteq EntrySet(ReadManifest(fs[ManifestPath]))
    /\ \E q \in LeftBehind : Excluded(TrimSuffix(RelPath(RepoDir, q), ".age"))

(***************************************************************************)
(* C27                                                                     *)
(***************************************************************************)

\* the running Theirs pull wrote the destination of e when it handled e: an
\* encrypted file is always decrypted over it, a plain one is copied when the
\* destination was missing or differed
PullApplied(e) ==
    \/ HasSuffix(e.file, ".age")
    \/ ~e.existed
    \/ Checksum(fs[e.file]) # Checksum(e.had)

\* C27: within one push no path of the working copy is written from two
\* different local files, and within one pull no local destination is written
\* from two different repository files.
C27_AsStated ==
    /\ InPush =>
          \A e1 \in Entries, e2 \in Entries : e1.dest = e2.dest => e1.file = e2.file
    /\ (InPull /\ ~cmd.dry /\ cmd.strategy = "theirs") =>
          \A e1 \in Entries, e2 \in Entries :
              (e1.dest = e2.dest /\ PullApplied(e1) /\ PullApplied(e2)) => e1.file = e2.file

\* the push half of C27 alone
C27_PushOnly ==
    InPush => \A e1 \in Entries, e2 \in Entries : e1.dest = e2.dest => e1.file = e2.file

\* the pull half of C27 alone
C27_PullOnly ==
    (InPull /\ ~cmd.dry /\ cmd.strategy = "theirs") =>
        \A e1 \in Entries, e2 \in Entries :
            (e1.dest = e2.dest /\ PullApplied(e1) /\ PullApplied(e2)) => e1.file = e2.file

(***************************************************************************)
(* C28                                                                     *)
(***************************************************************************)

\* the step that ends a non-dry-run push without error, on a local side that
\* is as the last successful push of this machine read it
RepeatedPush ==
    /\ cmd.name = "push" /\ ~cmd.dry
    /\ pc = "push_files" /\ pc' = "done" /\ result' = ""
    /\ pushed.valid /\ pushed.side = LocalSide(fs)

\* C28: a push repeated while the local config directory, the extra config
\* file and the pattern set are as the previous successful push found them
\* stages nothing, makes no commit, and leaves every file of the repository
\* working copy with the content it had.
C28_AsStated ==
    [][RepeatedPush =>
          /\ ~Invoked(vcsOps', "commit")
          /\ Part(fs', RepoDir) = Part(pre, RepoDir)]_vars

\* what does hold of a repeated push: the files it does not encrypt, the
\* manifest aside, keep their content
C28_PlainFilesKept ==
    [][RepeatedPush =>
          \A q \in Under(pre, RepoDir) :
              (~HasSuffix(q, ".age") /\ q # ManifestPath) => fs'[q] = pre[q]]_vars

(***************************************************************************)
(* C29                                                                     *)
(***************************************************************************)

\* verify is run on the state a successful non-dry-run push left
VerifyAfterPush ==
    /\ cmd.name = "push" /\ ~cmd.dry /\ pc = "done" /\ result = ""
    /\ cmd'.name = "verify"

\* the working copy holds no file whose name ends in white space
OrdinaryNames == \A q \in Under(fs, RepoDir) : TrimSpace(q) = q

\* what holds of C29: with ordinary file names in the working copy
C29_OrdinaryNames ==
    [][(VerifyAfterPush /\ OrdinaryNames) =>
          /\ result' = ""
          /\ \A i \in 1..Len(report') : report'[i].verdict = "OK"]_vars

\* C29: verify run right after a successful non-dry-run push, with the
\* working copy as the push left it, reports no discrepancy and succeeds:
\* every entry of the manifest names an existing file with the recorded digest.
C29_AsStated ==
    [][VerifyAfterPush =>
          /\ result' = ""
          /\ Len(report') > 0
          /\ \A i \in 1..Len(report') : report'[i].verdict = "OK"]_vars

(***************************************************************************)
(* C30                                                                     *)
(***************************************************************************)

\* the step of a pull that handles a repository file the identity cannot
\* decrypt, and returns the error for it
DecryptFails ==
    /\ cmd.name = "pull" /\ pc = "pull_files" /\ walk # <<>>
    /\ HasSuffix(Head(walk), ".age")
    /\ ~Decrypt(cmd.identity, fs[Head(walk)])[1]
    /\ HasPrefix(result', "failed to decrypt ")

PathEnds == {"\"", " ", "\n"}

\* s without the leading characters that belong to a path
RECURSIVE SkipPath(_)
SkipPath(s) ==
    IF s = "" \/ SubSeq(s, 1, 1) \in PathEnds THEN s
    ELSE SkipPath(SubSeq(s, 2, Len(s)))

\* s with every path that begins with start blanked out: what is left is the
\* text expand has no business with
RECURSIVE Outside(_, _)
Outside(s, start) ==
    IF s = "" THEN ""
    ELSE IF HasPrefix(s, start)
    THEN "<path>" \o Outside(SkipPath(SubSeq(s, Len(start) + 1, Len(s))), start)
    ELSE SubSeq(s, 1, 1) \o Outside(SubSeq(s, 2, Len(s)), start)

\* C31: expand changes nothing in a payload but the occurrences of the
\* placeholder and the separators of the path each occurrence begins; every
\* other character, the backslash escapes of unrelated string values on the
\* same line included, is the same before and after.
C31_AsStated ==
    [][(pc = "normalized" /\ pc' = "expanded") =>
          Outside(result', ReplaceAll(cmd.claudeDir, "\\", "\\\\"))
              = Outside(result, ClaudeDirPlaceholder)]_vars

\* what holds of C31: the lines in which expand puts no path are left as they are
C31_OtherLines ==
    [][(pc = "normalized" /\ pc' = "expanded") =>
          LET before == Split(result, "\n")
              after == Split(result', "\n")
          IN  /\ Len(after) = Len(before)
              /\ \A i \in 1..Len(before) :
                    ~Contains(before[i], ClaudeDirPlaceholder) => after[i] = before[i]]_vars

(***************************************************************************)
(* C32                                                                     *)
(***************************************************************************)

\* the runs of git that fail with the unrelated-histories signature
UnrelatedHistories ==
    {o \in GitOutcomes :
        ~o.ok /\ o.stderr = "fatal: refusing to merge unrelated histories\n"}

\* C32: Git.Pull runs `git pull` at most twice; the second run, with
\* --allow-unrelated-histories, is made exactly when the first failed with the
\* unrelated-histories signature; any other failure is returned as it is, and
\* what is returned is the result of the last run made.
C32_RetryOnce ==
    pc = "returned" =>
        /\ Len(vcsOps) \in {1, 2}
        /\ vcsOps[1] = PullArgs
        /\ (Len(vcsOps) = 2) <=> (cmd.first \in UnrelatedHistories)
        /\ Len(vcsOps) = 2 => vcsOps[2] = PullArgs \o " --allow-unrelated-histories"
        /\ LET last == IF Len(vcsOps) = 2 THEN cmd.second ELSE cmd.first
           IN  /\ (result = "") <=> last.ok
               /\ ~last.ok => HasSuffix(result, ": " \o last.stderr)

\* the first run failed with the signature, the second with another error,
\* and that error is what Git.Pull returned
C32_Witness ==
    /\ pc = "returned" /\ Len(vcsOps) = 2
    /\ cmd.first \in UnrelatedHistories
    /\ ~cmd.second.ok /\ Contains(cmd.second.stderr, "CONFLICT")
    /\ Contains(result, "CONFLICT")

(***************************************************************************)
(* C33                                                                     *)
(***************************************************************************)

\* the paths whose presence or content a step changes
Changed == {q \in (DOMAIN fs) \cup (DOMAIN fs') :
               \/ (q \in DOMAIN fs) # (q \in DOMAIN fs')
               \/ q \in DOMAIN fs /\ fs'[q] # fs[q]}

\* a step of runPull's loop that handles a repository file
HandlesFile == cmd.name = "pull" /\ pc = "pull_files" /\ walk # <<>>

\* C33 as stated: a step of pull that handles a repository file writes nothing but
\* the place of its logical path (the extra top-level config file for the logical
\* path claude.json, stored encrypted or plain, and the same relative path under the
\* local config directory for any other) and sibling backups of that place.
C33_AsStated ==
    [][HandlesFile =>
          LET logical == TrimSuffix(RelPath(RepoDir, Head(walk)), ".age")
              place == IF logical = "claude.json" THEN ClaudeJSON
                       ELSE Join(ClaudeDir, logical)
          IN  Changed \subseteq ({place} \cup SiblingBackups(fs', place))]_vars

\* what the code does: claude.json.age goes to the extra top-level config file, and
\* every other repository file, a plain claude.json included, to its logical path
\* under the local config directory; nothing else is written but sibling backups
C33_EncryptedOnly ==
    [][HandlesFile =>
          LET relPath == RelPath(RepoDir, Head(walk))
              place == IF relPath = "claude.json.age" THEN ClaudeJSON
                       ELSE Join(ClaudeDir, TrimSuffix(relPath, ".age"))
          IN  Changed \subseteq ({place} \cup SiblingBackups(fs', place))]_vars

(***************************************************************************)
(* C34                                                                     *)
(***************************************************************************)

\* the paths of disk f below dir that carry the name BackupFile gives a sibling backup
BackupsIn(f, dir) == {q \in Under(f, dir) : Contains(Base(q), ".local-backup-")}

\* C34: with the default patterns (no config.yaml), a sibling backup in the local
\* config directory is not handled by a push, the repository paths it would go to,
\* plain and with the encrypted suffix, stay as they were, and no file with the name
\* of a sibling backup is in the working copy or on the remote.
C34_BackupsStayLocal ==
    ~yaml.present =>
        /\ BackupsIn(fs, RepoDir) = {}
        /\ \A r \in DOMAIN remote : ~Contains(r, ".local-backup-")
        /\ InPush =>
              \A p \in BackupsIn(pre, ClaudeDir) :
                  /\ \A e \in Entries : e.file # p
                  /\ Untouched(Join(RepoDir, RelPath(ClaudeDir, p)))
                  /\ Untouched(Join(RepoDir, RelPath(ClaudeDir, p)) \o ".age")

\* a push under the default patterns has succeeded and reached the remote while the
\* local config directory held the plaintext sibling backup an earlier pull made of
\* a file that is stored encrypted
C34_Witness ==
    /\ ~yaml.present /\ InPush /\ ~cmd.dry /\ pc = "done" /\ result = ""
    /\ Invoked(vcsOps, "push") /\ remote = head
    /\ \E p \in BackupsIn(pre, ClaudeDir) :
          LET name == RelPath(ClaudeDir, p)
              orig == SubSeq(name, 1, Len(name) - Len(".local-backup-" \o Timestamp(1)))
          IN  /\ Encrypted(orig)
              /\ Join(RepoDir, orig) \o ".age" \in DOMAIN fs
              /\ \E e \in Entries : e.file = Join(ClaudeDir, orig)

(***************************************************************************)
(* C35                                                                     *)
(***************************************************************************)

\* the platform tags the base name of the checked file's logical path carries
TagsCarried ==
    LET base == Base(TrimSuffix(cmd.relPath, ".age"))
    IN  {t \in {PlatformWindows, PlatformUnix} : Contains(base, "." \o t \o ".")}

\* the platform the check runs on
Current == IF cmd.goos = "windows" THEN PlatformWindows ELSE PlatformUnix

\* C35 as stated: a file is skipped for platform reasons exactly when its base name
\* carries a tag of a platform other than the current one, and a file that carries
\* no tag or the tag of the current platform is not skipped.
C35_AsStated ==
    pc = "checked" =>
        /\ (result = "skipped") <=> (TagsCarried \ {Current} # {})
        /\ (TagsCarried = {} \/ Current \in TagsCarried) => result = "handled"

\* C35: a file is skipped for platform reasons exactly when the variant its base
\* name stands for is not the current platform, where a name with one tag stands for
\* that platform, a name with both tags stands for Windows, and a name with no tag
\* stands for none.
C35_WindowsTagWins ==
    pc = "checked" =>
        LET variant == IF PlatformWindows \in TagsCarried THEN PlatformWindows
                       ELSE IF PlatformUnix \in TagsCarried THEN PlatformUnix
                       ELSE ""
        IN  (result = "skipped") <=> (variant # "" /\ variant # Current)

\* on a Unix platform, an encrypted file in a subdirectory whose base name carries
\* both tags was skipped
C35_Witness ==
    /\ pc = "checked" /\ result = "skipped"
    /\ cmd.goos = "darwin"
    /\ cmd.relPath = "commands/deploy.unix.windows.md.age"

====
